---- MODULE Spec2Model ----
(***************************************************************************)
(* Multi-camera monitoring core of sbricenoi/titulo:                       *)
(*   core/sync_engine.py    SyncEngine / FrameBuffer  (frame synchronizer) *)
(*   ai/tracker.py          SimpleTracker             (per-camera tracks)  *)
(*   ai/tracker.py          MultiCameraTracker        (global identities)  *)
(*   core/fusion_engine.py  FusionEngine              (per-step grouping)  *)
(* The components share no state, so each has its own specification       *)
(* (SpecSync, SpecSimple, SpecMulti, SpecFusion) over its own variables;   *)
(* Spec is their interleaving.                                             *)
(*                                                                         *)
(* Numbers.  Time is counted in whole seconds (timestamps and the clock    *)
(* are integers).  Bounding boxes have integer corners and an IoU is kept  *)
(* as the exact fraction <<intersection, union>>.  Embeddings are integer  *)
(* vectors; a prototype is the exact vector num / 10^exp, and cosine       *)
(* similarities are compared with thresholds by exact integer arithmetic.  *)
(***************************************************************************)
EXTENDS Integers, Sequences, FiniteSets, TLC

(***************************************************************************)
(* Bounds of the model and configuration of the components.                *)
(***************************************************************************)
Cameras == {0, 1}
\* the values of the clock and of explicit timestamps, in seconds
Times == 0..3
\* SyncEngine(buffer_size=...): the capacities a buffer is configured with
BufferSizes == {1, 2}
\* add_frame calls, all cameras together
MaxPush == 2
\* get_synced_frames and wait_for_synced_frames calls
MaxGets == 1
\* the numbers of rounds of the loop of a wait_for_synced_frames call that
\* runs into its timeout
PollCounts == {1}
\* wait_for_synced_frames(timeout=...), in seconds
Timeouts == {0, 1}
\* SyncEngine(tolerance_ms=...) / 1000.0, in seconds
tolerance_sec == 1
\* max_age_sec of clear_old_frames as add_frame calls it
max_age_sec == 2

\* Optional[float] None for a timestamp
NoTs == -1

\* Optional[List[int]] None for camera_ids
AllCameras == {-1}

Abs(x) == IF x < 0 THEN -x ELSE x

VARIABLES
    \* ---- SyncEngine
    buffer_size,      \* SyncEngine.buffer_size, the max_size of every buffer
    buffers,          \* Dict[int, FrameBuffer]: camera -> frames, oldest first
    frame_counters,   \* Dict[int, int]
    sync_stats,       \* the integer counters of SyncEngine.stats
    now,              \* time.time()
    synced,           \* what get_synced_frames returned, while the call is
                      \* the latest operation (empty otherwise)
    ref_used,         \* the reference timestamp that call used (NoTs: none)
    gets,             \* number of get_synced_frames and
                      \* wait_for_synced_frames calls made
    sync_op,          \* history: the call that led to this state
    \* ---- a SimpleTracker used on its own
    st_min_hits,      \* SimpleTracker.min_hits
    st_tracks,        \* SimpleTracker.tracks
    st_next_id,       \* SimpleTracker.next_id
    st_dets,          \* history: the detections of the last update
    st_purged,        \* history: whether the tracker had purged a track
                      \* when the last update was called
    st_out,           \* the list the last update returned
    st_raised,        \* whether the last update raised
    st_updates,       \* number of update calls made
    \* ---- MultiCameraTracker
    mc_min_hits,      \* MultiCameraTracker.min_hits
    trackers,         \* Dict[int, SimpleTracker]: camera -> (tracks, next_id)
    local_to_global,  \* Dict[int, Dict[int, str]]
    global_features,  \* Dict[str, np.ndarray], in insertion order
    next_global_id,   \* MultiCameraTracker.next_global_id
    mc_stats,         \* MultiCameraTracker.stats
    mc_out,           \* the list the last update returned
    mc_last_op,       \* the operation that led to this state
    res_log,          \* history: the last two calls of _assign_global_id
                      \* since construction or the last reset
    mint_log,         \* history: the numbers n of the ids F<n> minted since
                      \* construction or the last reset, in order
    minted_before,    \* history: the numbers minted before the last reset
    mc_ops,           \* numbers of update and _assign_global_id calls made
    \* ---- FusionEngine
    fe_next_global_id, \* FusionEngine.next_global_id
    fe_stats,          \* FusionEngine.stats
    fe_out,            \* the list the last merge_detections returned
    fe_in,             \* the detections of that call, flattened
    fe_repeat,         \* history: that call got the detections of the call
                       \* before it
    fe_prev_ids,       \* history: the global ids the call before it returned
    fe_calls,          \* number of merge_detections calls made
    \* ---- one FrameBuffer shared by a producer and a consumer thread
    rc_max_size,       \* FrameBuffer.max_size
    rc_frames,         \* FrameBuffer.frames
    rc_state,          \* the deque's count of mutations, which its
                       \* iterators compare with the count at their creation
    rc_prod,           \* the producer thread: where it is in add_frame
    rc_cons,           \* the consumer thread: where it is in
                       \* get_synced_frames
    rc_raised,         \* the exception a thread raised ("none": none)
    rc_result,         \* the frame the consumer's last call returned
    rc_calls,          \* numbers of add_frame and get_synced_frames calls
    \* ---- one call of calculate_iou
    iou_bbox1,         \* the argument bbox1
    iou_bbox2,         \* the argument bbox2
    iou_result,        \* the class whose calculate_iou was called ("none":
                       \* not called yet) and the value returned
    \* ---- one FusedObject
    fo_detections,     \* the confidences of FusedObject.detections, in
                       \* hundredths
    fo_confidence,     \* FusedObject.confidence, as a fraction
    fo_updated,        \* whether update_confidence was called
    \* ---- the greedy matching loop of one SimpleTracker.update
    gm_threshold,      \* SimpleTracker.iou_threshold, as a fraction
    gm_before,         \* self.tracks when the loop is entered
    gm_tracks,         \* self.tracks
    gm_dets,           \* detections
    iou_matrix,        \* iou_matrix
    gm_pairs,          \* the pairs (i, j) added to matched_tracks and
                       \* matched_detections, in order
    gm_pc,             \* "loop": in the loop, "done": after the break
    \* ---- one TrackedObject with every field the tracker writes
    tk_track           \* the TrackedObject

syncVars == <<buffer_size, buffers, frame_counters, sync_stats, now, synced,
              ref_used, gets, sync_op>>
simpleVars == <<st_min_hits, st_tracks, st_next_id, st_dets, st_purged,
                st_out, st_raised, st_updates>>
multiVars == <<mc_min_hits, trackers, local_to_global, global_features,
               next_global_id, mc_stats, mc_out, mc_last_op, res_log,
               mint_log, minted_before, mc_ops>>
fusionVars == <<fe_next_global_id, fe_stats, fe_out, fe_in, fe_repeat,
                fe_prev_ids, fe_calls>>
raceVars == <<rc_max_size, rc_frames, rc_state, rc_prod, rc_cons, rc_raised,
              rc_result, rc_calls>>
iouVars == <<iou_bbox1, iou_bbox2, iou_result>>
fusedVars == <<fo_detections, fo_confidence, fo_updated>>
greedyVars == <<gm_threshold, gm_before, gm_tracks, gm_dets, iou_matrix,
                gm_pairs, gm_pc>>
trackVars == <<tk_track>>
vars == <<syncVars, simpleVars, multiVars, fusionVars, raceVars, iouVars,
          fusedVars, greedyVars, trackVars>>

\* a step of one component leaves the other components alone
SyncOnly ==
    UNCHANGED <<simpleVars, multiVars, fusionVars, raceVars, iouVars, fusedVars,
                greedyVars, trackVars>>
SimpleOnly ==
    UNCHANGED <<syncVars, multiVars, fusionVars, raceVars, iouVars, fusedVars,
                greedyVars, trackVars>>
MultiOnly ==
    UNCHANGED <<syncVars, simpleVars, fusionVars, raceVars, iouVars, fusedVars,
                greedyVars, trackVars>>
FusionOnly ==
    UNCHANGED <<syncVars, simpleVars, multiVars, raceVars, iouVars, fusedVars,
                greedyVars, trackVars>>
RaceOnly ==
    UNCHANGED <<syncVars, simpleVars, multiVars, fusionVars, iouVars, fusedVars,
                greedyVars, trackVars>>
IouOnly ==
    UNCHANGED <<syncVars, simpleVars, multiVars, fusionVars, raceVars, fusedVars,
                greedyVars, trackVars>>
FusedOnly ==
    UNCHANGED <<syncVars, simpleVars, multiVars, fusionVars, raceVars, iouVars,
                greedyVars, trackVars>>
GreedyOnly ==
    UNCHANGED <<syncVars, simpleVars, multiVars, fusionVars, raceVars, iouVars,
                fusedVars, trackVars>>
TrackOnly ==
    UNCHANGED <<syncVars, simpleVars, multiVars, fusionVars, raceVars, iouVars,
                fusedVars, greedyVars>>

(***************************************************************************)
(* FrameBuffer                                                             *)
(***************************************************************************)
SyncedFrame(cam, ts, fn) ==
    [camera_id |-> cam, timestamp |-> ts, frame_number |-> fn]

\* get_closest_frame on an empty buffer returns None
NoFrame == SyncedFrame(-1, NoTs, 0)

\* a buffer that drops no frame when it is full
TrimToMaxSize_Never(frames, max_size) == frames

\* while len(self.frames) > self.max_size: self.frames.popleft()
RECURSIVE TrimToMaxSize(_, _)
TrimToMaxSize(frames, max_size) ==
    IF Len(frames) > max_size
    THEN TrimToMaxSize(Tail(frames), max_size)
    ELSE frames

FrameBuffer_add_frame(frames, cam, ts, fn, max_size) ==
    TrimToMaxSize(Append(frames, SyncedFrame(cam, ts, fn)), max_size)

\* while self.frames and (current_time - self.frames[0].timestamp) > max_age_sec
RECURSIVE clear_old_frames(_, _, _)
clear_old_frames(frames, current_time, max_age) ==
    IF frames # <<>> /\ (current_time - Head(frames).timestamp) > max_age
    THEN clear_old_frames(Tail(frames), current_time, max_age)
    ELSE frames

\* min(self.frames, key=...): the first frame of least distance
get_closest_frame(frames, target_timestamp) ==
    IF frames = <<>> THEN NoFrame
    ELSE LET dist(i) == Abs(frames[i].timestamp - target_timestamp)
             best == CHOOSE i \in 1..Len(frames) :
                        /\ \A j \in 1..Len(frames) : dist(i) <= dist(j)
                        /\ \A j \in 1..(i - 1) : dist(j) > dist(i)
         IN frames[best]

get_latest_timestamp(frames) ==
    IF frames = <<>> THEN NoTs ELSE frames[Len(frames)].timestamp

(***************************************************************************)
(* SyncEngine                                                              *)
(***************************************************************************)
SetMin(S) == CHOOSE x \in S : \A y \in S : x <= y

\* a register_camera that does not look for the camera
register_camera_Again(bufs, counters, cam) ==
    [b |-> (cam :> <<>>) @@ bufs, c |-> (cam :> 0) @@ counters]

\* what register_camera does to the pair (buffers, frame_counters)
register_camera(bufs, counters, cam) ==
    IF cam \notin DOMAIN bufs
    THEN [b |-> (cam :> <<>>) @@ bufs, c |-> (cam :> 0) @@ counters]
    ELSE [b |-> bufs, c |-> counters]

get_reference_timestamp(bufs) ==
    IF DOMAIN bufs = {} THEN NoTs
    ELSE LET latest_timestamps ==
                 {get_latest_timestamp(bufs[c]) : c \in DOMAIN bufs} \ {NoTs}
         IN IF latest_timestamps = {} THEN NoTs ELSE SetMin(latest_timestamps)

\* a get_synced_frames that forgets the tolerance check
WithinTolerance_Unchecked(time_diff) == TRUE

\* if time_diff <= self.tolerance_sec
WithinTolerance(time_diff) == time_diff <= tolerance_sec

\* a loop of get_synced_frames that does not count the cameras out of
\* tolerance
SyncedFor_Uncounted(bufs, camera_ids, reference_timestamp) ==
    LET closest(c) == get_closest_frame(bufs[c], reference_timestamp)
        kept == {c \in camera_ids \cap DOMAIN bufs :
                    /\ closest(c) # NoFrame
                    /\ WithinTolerance(Abs(closest(c).timestamp
                                           - reference_timestamp))}
    IN [frames |-> [c \in kept |-> closest(c)], failures |-> 0]

\* the loop of get_synced_frames over camera_ids, for a known reference
SyncedFor(bufs, camera_ids, reference_timestamp) ==
    LET closest(c) == get_closest_frame(bufs[c], reference_timestamp)
        found == {c \in camera_ids \cap DOMAIN bufs : closest(c) # NoFrame}
        time_diff(c) == Abs(closest(c).timestamp - reference_timestamp)
        kept == {c \in found : WithinTolerance(time_diff(c))}
    IN [frames |-> [c \in kept |-> closest(c)],
        failures |-> Cardinality(found \ kept)]

EmptyMap == [c \in {} |-> NoFrame]

\* a call of the engine: its name, the camera of register_camera and
\* add_frame and whether it was registered before the call, the camera_ids
\* of get_synced_frames and wait_for_synced_frames and whether they were
\* None, whether the reference_timestamp was None, whether the call raised
Call(op, cam, known, ids, all, auto, raised) ==
    [op |-> op, cam |-> cam, known |-> known, ids |-> ids, all |-> all,
     auto |-> auto, raised |-> raised]

\* a step that is no call of interest: reset, the clock
NoCall == Call("none", -1, FALSE, {}, FALSE, FALSE, FALSE)

SyncInit ==
    /\ buffer_size \in BufferSizes
    /\ buffers = EmptyMap
    /\ frame_counters = [c \in {} |-> 0]
    /\ sync_stats = [total_frames_added |-> 0, total_synced_sets |-> 0,
                     sync_failures |-> 0]
    /\ now = 0
    /\ synced = EmptyMap
    /\ ref_used = NoTs
    /\ gets = 0
    /\ sync_op = NoCall

\* an operation other than get_synced_frames returns no synchronized set
NoSyncedSet ==
    /\ synced' = EmptyMap
    /\ ref_used' = NoTs

RECURSIVE SumOver(_, _)
SumOver(f, S) ==
    IF S = {} THEN 0
    ELSE LET x == CHOOSE y \in S : TRUE IN f[x] + SumOver(f, S \ {x})

\* frames pushed since construction
TotalPushed == SumOver(frame_counters, DOMAIN frame_counters)

RegisterCamera(cam) ==
    /\ LET r == register_camera(buffers, frame_counters, cam)
       IN /\ buffers' = r.b
          /\ frame_counters' = r.c
    /\ sync_op' = Call("register", cam, cam \in DOMAIN buffers, {}, FALSE,
                       FALSE, FALSE)
    /\ NoSyncedSet
    /\ SyncOnly
    /\ UNCHANGED <<buffer_size, sync_stats, now, gets>>

\* SyncEngine.add_frame(camera_id, frame, timestamp); timestamp = NoTs is None
AddFrame(cam, timestamp) ==
    /\ TotalPushed < MaxPush
    /\ LET r == register_camera(buffers, frame_counters, cam)
           ts == IF timestamp = NoTs THEN now ELSE timestamp
           frame_number == r.c[cam] + 1
           pushed == FrameBuffer_add_frame(r.b[cam], cam, ts, frame_number,
                                           buffer_size)
       IN /\ frame_counters' = [r.c EXCEPT ![cam] = frame_number]
          /\ buffers' = [r.b EXCEPT
                            ![cam] = clear_old_frames(pushed, now, max_age_sec)]
    /\ sync_stats' = [sync_stats EXCEPT !.total_frames_added = @ + 1]
    /\ sync_op' = Call("add", cam, cam \in DOMAIN buffers, {}, FALSE, FALSE,
                       FALSE)
    /\ NoSyncedSet
    /\ SyncOnly
    /\ UNCHANGED <<buffer_size, now, gets>>

\* int None for min_cameras
NoMin == -1

\* a get_synced_frames that hands out nothing once a set was handed out
get_synced_frames_Once(bufs, stats, ids, reference_timestamp) ==
    LET camera_ids == IF ids = AllCameras THEN DOMAIN bufs ELSE ids
        ref == IF camera_ids = {} THEN NoTs
               ELSE IF reference_timestamp = NoTs
                    THEN get_reference_timestamp(bufs)
                    ELSE reference_timestamp
    IN IF ref = NoTs \/ stats.total_synced_sets > 0
       THEN [frames |-> EmptyMap, ref |-> ref, stats |-> stats]
       ELSE LET r == SyncedFor(bufs, camera_ids, ref)
            IN [frames |-> r.frames, ref |-> ref,
                stats |-> [stats EXCEPT
                             !.sync_failures = @ + r.failures,
                             !.total_synced_sets =
                                 IF DOMAIN r.frames # {} THEN @ + 1 ELSE @]]

\* get_synced_frames(camera_ids, reference_timestamp) on the buffers bufs and
\* the statistics stats: the map returned, the reference used, the statistics
\* after the call; ids = AllCameras is camera_ids=None, reference_timestamp =
\* NoTs is None
get_synced_frames(bufs, stats, ids, reference_timestamp) ==
    LET camera_ids == IF ids = AllCameras THEN DOMAIN bufs ELSE ids
        ref == IF camera_ids = {} THEN NoTs
               ELSE IF reference_timestamp = NoTs
                    THEN get_reference_timestamp(bufs)
                    ELSE reference_timestamp
    IN IF ref = NoTs
       THEN [frames |-> EmptyMap, ref |-> NoTs, stats |-> stats]
       ELSE LET r == SyncedFor(bufs, camera_ids, ref)
            IN [frames |-> r.frames, ref |-> ref,
                stats |-> [stats EXCEPT
                             !.sync_failures = @ + r.failures,
                             !.total_synced_sets =
                                 IF DOMAIN r.frames # {} THEN @ + 1 ELSE @]]

\* SyncEngine.get_synced_frames(camera_ids, reference_timestamp)
GetSyncedFrames(ids, reference_timestamp) ==
    /\ gets < MaxGets
    /\ gets' = gets + 1
    /\ LET r == get_synced_frames(buffers, sync_stats, ids, reference_timestamp)
       IN /\ synced' = r.frames
          /\ ref_used' = r.ref
          /\ sync_stats' = r.stats
    /\ sync_op' = Call("get", -1, FALSE,
                       IF ids = AllCameras THEN DOMAIN buffers ELSE ids,
                       ids = AllCameras, reference_timestamp = NoTs, FALSE)
    /\ UNCHANGED <<buffer_size, buffers, frame_counters, now>>
    /\ SyncOnly

\* the n-th of n successive calls get_synced_frames(camera_ids), n >= 1
RECURSIVE Polled(_, _, _, _)
Polled(bufs, stats, camera_ids, n) ==
    IF n = 1 THEN get_synced_frames(bufs, stats, camera_ids, NoTs)
    ELSE Polled(bufs,
                get_synced_frames(bufs, stats, camera_ids, NoTs).stats,
                camera_ids, n - 1)

\* wait_for_synced_frames(camera_ids, timeout, min_cameras) when nothing
\* else touches the engine meanwhile. late: the timeout has elapsed when the
\* loop condition is first evaluated; polls: the rounds of the loop made
\* before a timeout > 0 elapses. Without a round of the loop synced_frames
\* is unbound when the warning is formatted: UnboundLocalError.
wait_for_synced_frames(bufs, stats, ids, timeout, min_cameras, late, polls) ==
    LET camera_ids == IF ids = AllCameras THEN DOMAIN bufs ELSE ids
        needed == IF min_cameras = NoMin THEN Cardinality(camera_ids)
                  ELSE min_cameras
        first == get_synced_frames(bufs, stats, camera_ids, NoTs)
    IN IF timeout = 0 \/ late
       THEN [frames |-> EmptyMap, ref |-> NoTs, stats |-> stats,
             raised |-> TRUE, timed_out |-> TRUE]
       ELSE IF Cardinality(DOMAIN first.frames) >= needed
       THEN [frames |-> first.frames, ref |-> first.ref, stats |-> first.stats,
             raised |-> FALSE, timed_out |-> FALSE]
       ELSE LET last == Polled(bufs, stats, camera_ids, polls + 1)
            IN [frames |-> last.frames, ref |-> last.ref, stats |-> last.stats,
                raised |-> FALSE, timed_out |-> TRUE]

\* how a wait_for_synced_frames call can run: no round of the loop (the
\* timeout is 0 or has elapsed at the first test), or some rounds
WaitCases ==
    {[timeout |-> 0, late |-> FALSE, polls |-> 0]}
    \cup {[timeout |-> t, late |-> TRUE, polls |-> 0] : t \in Timeouts \ {0}}
    \cup {[timeout |-> t, late |-> FALSE, polls |-> n] :
             t \in Timeouts \ {0}, n \in PollCounts}

\* SyncEngine.wait_for_synced_frames(camera_ids, timeout, min_cameras)
WaitForSyncedFrames(ids, timeout, min_cameras, late, polls) ==
    /\ gets < MaxGets
    /\ gets' = gets + 1
    /\ now + timeout \in Times
    /\ LET r == wait_for_synced_frames(buffers, sync_stats, ids, timeout,
                                       min_cameras, late, polls)
       IN /\ synced' = r.frames
          /\ ref_used' = r.ref
          /\ sync_stats' = r.stats
          /\ now' = IF r.timed_out THEN now + timeout ELSE now
          /\ sync_op' = Call("wait", -1, FALSE,
                             IF ids = AllCameras THEN DOMAIN buffers ELSE ids,
                             ids = AllCameras, TRUE, r.raised)
    /\ UNCHANGED <<buffer_size, buffers, frame_counters>>
    /\ SyncOnly

\* SyncEngine.reset: the frames and the statistics go, the buffers and the
\* frame counters stay
SyncReset ==
    /\ \E c \in DOMAIN buffers : buffers[c] # <<>>
    /\ buffers' = [c \in DOMAIN buffers |-> <<>>]
    /\ sync_stats' = [total_frames_added |-> 0, total_synced_sets |-> 0,
                      sync_failures |-> 0]
    /\ sync_op' = NoCall
    /\ NoSyncedSet
    /\ SyncOnly
    /\ UNCHANGED <<buffer_size, frame_counters, now, gets>>

\* the wall clock advances
Tick ==
    /\ now + 1 \in Times
    /\ now' = now + 1
    /\ sync_op' = NoCall
    /\ NoSyncedSet
    /\ SyncOnly
    /\ UNCHANGED <<buffer_size, buffers, frame_counters, sync_stats, gets>>

SyncNext ==
    \/ \E cam \in Cameras : RegisterCamera(cam)
    \/ \E cam \in Cameras, ts \in {NoTs} \cup Times : AddFrame(cam, ts)
    \/ \E ids \in {AllCameras, {}, Cameras},
          ref \in {NoTs, 0, 2} : GetSyncedFrames(ids, ref)
    \/ \E ids \in {AllCameras}, w \in WaitCases,
          min_cameras \in {NoMin, 1} :
          WaitForSyncedFrames(ids, w.timeout, min_cameras, w.late, w.polls)
    \/ SyncReset
    \/ Tick


(***************************************************************************)
(* Properties of the synchronizer                                          *)
(***************************************************************************)
\* C1: every frame of the map get_synced_frames returns lies within the
\* tolerance of the reference timestamp that call used, whether the
\* reference was computed from the buffers or passed by the caller.
C1_ToleranceRespected ==
    \A c \in DOMAIN synced :
        Abs(synced[c].timestamp - ref_used) <= tolerance_sec

\* a call that kept one camera's frame at a non-zero distance from the
\* reference and left out another camera whose frames are all too far
C1_Witness ==
    /\ \E c \in DOMAIN synced : synced[c].timestamp # ref_used
    /\ \E d \in DOMAIN buffers \ DOMAIN synced :
          /\ buffers[d] # <<>>
          /\ \A i \in 1..Len(buffers[d]) :
                Abs(buffers[d][i].timestamp - ref_used) > tolerance_sec

\* the frames of camera c's buffer are the latest pushed ones, in push order
LatestInOrder(c) ==
    \A i \in 1..Len(buffers[c]) :
        buffers[c][i].frame_number = frame_counters[c] - Len(buffers[c]) + i

\* no reset since the first push
NeverReset == sync_stats.total_frames_added = TotalPushed

C12_RegistrationIdempotent ==
    [][/\ DOMAIN buffers' = DOMAIN frame_counters'
       /\ (sync_op'.op \in {"register", "add"} /\ sync_op'.known) =>
             /\ DOMAIN buffers' = DOMAIN buffers
             /\ sync_op'.op = "register" =>
                   /\ buffers'[sync_op'.cam] = buffers[sync_op'.cam]
                   /\ frame_counters'[sync_op'.cam] =
                         frame_counters[sync_op'.cam]
             /\ sync_op'.op = "add" =>
                   /\ frame_counters'[sync_op'.cam] =
                         frame_counters[sync_op'.cam] + 1
                   /\ \A i \in 1..Len(buffers'[sync_op'.cam]) :
                         \/ buffers'[sync_op'.cam][i].frame_number =
                               frame_counters'[sync_op'.cam]
                         \/ \E j \in 1..Len(buffers[sync_op'.cam]) :
                               buffers[sync_op'.cam][j] =
                                  buffers'[sync_op'.cam][i]]_vars

\* register_camera was called for a camera that has frames in its buffer
C12_Witness ==
    /\ sync_op.op = "register"
    /\ sync_op.known
    /\ buffers[sync_op.cam] # <<>>
    /\ frame_counters[sync_op.cam] > 0

\* every buffered frame was stamped with the time of its push or an earlier
\* one, and every buffer is in the order of the timestamps
StampedInOrder ==
    \A c \in DOMAIN buffers :
       \A i \in 1..Len(buffers[c]) :
          /\ buffers[c][i].timestamp <= now
          /\ \A j \in 1..(i - 1) :
                buffers[c][j].timestamp <= buffers[c][i].timestamp

\* C13: a get_synced_frames call for all cameras with the computed
\* reference includes every camera that keeps pushing, that is, whose newest
\* frame is stamped with the current time, whatever the other cameras do.
C13_NoStarvation ==
    (sync_op.op = "get" /\ sync_op.all /\ sync_op.auto /\ StampedInOrder) =>
       \A c \in DOMAIN buffers :
          (buffers[c] # <<>> /\ get_latest_timestamp(buffers[c]) = now)
             => c \in DOMAIN synced

\* C15: wait_for_synced_frames never raises, whatever the timeout (0
\* included, or one that has elapsed before the first poll) and the buffers.
C15_WaitNeverRaises == sync_op.op = "wait" => ~sync_op.raised

\* every frame of the buffer frames is farther than the tolerance from ref
AllOutOfTolerance(frames, ref) ==
    \A i \in 1..Len(frames) : Abs(frames[i].timestamp - ref) > tolerance_sec

\* the requested cameras camera_ids that have frames, all of them out of
\* tolerance of ref
OutOfTolerance(camera_ids, ref) ==
    {c \in camera_ids \cap DOMAIN buffers :
        buffers[c] # <<>> /\ AllOutOfTolerance(buffers[c], ref)}

\* the requested cameras camera_ids that are unregistered or have no frame
Absent(camera_ids) ==
    {c \in camera_ids : c \notin DOMAIN buffers \/ buffers[c] = <<>>}

\* C16: a get_synced_frames call does not raise; it leaves out of its result
\* every requested camera that is unregistered, has an empty buffer or has
\* no frame within the tolerance of the reference; it adds to sync_failures
\* the number of requested cameras out of tolerance, and changes nothing
\* else but the count of synchronized sets.
C16_StarvedOmitted ==
    [][sync_op'.op = "get" =>
         /\ ~sync_op'.raised
         /\ buffers' = buffers /\ frame_counters' = frame_counters
         /\ sync_stats'.total_frames_added = sync_stats.total_frames_added
         /\ sync_stats'.total_synced_sets =
               sync_stats.total_synced_sets
                  + (IF DOMAIN synced' # {} THEN 1 ELSE 0)
         /\ IF ref_used' = NoTs
            THEN /\ synced' = EmptyMap
                 /\ sync_stats'.sync_failures = sync_stats.sync_failures
            ELSE /\ DOMAIN synced' =
                       sync_op'.ids \ (Absent(sync_op'.ids)
                                       \cup OutOfTolerance(sync_op'.ids,
                                                           ref_used'))
                 /\ sync_stats'.sync_failures =
                       sync_stats.sync_failures
                          + Cardinality(OutOfTolerance(sync_op'.ids,
                                                       ref_used'))]_vars

\* a call for a list of cameras that left out one camera for being out of
\* tolerance and counted it, and left out another for being unregistered
C16_Witness ==
    /\ sync_op.op = "get" /\ ~sync_op.all
    /\ ref_used # NoTs
    /\ sync_stats.sync_failures = 1
    /\ OutOfTolerance(sync_op.ids, ref_used) # {}
    /\ sync_op.ids \ DOMAIN buffers # {}
    /\ synced = EmptyMap

\* the greatest capture timestamp of a non-empty buffer
GreatestTimestamp(frames) ==
    CHOOSE t \in {frames[i].timestamp : i \in 1..Len(frames)} :
       \A i \in 1..Len(frames) : frames[i].timestamp <= t

\* C17: with no reference passed, the reference that get_synced_frames uses
\* is the least, over the registered cameras with frames, of the greatest
\* capture timestamp in the camera's buffer.
C17_ReferenceIsMinOfGreatest ==
    (sync_op.op = "get" /\ sync_op.auto /\ ref_used # NoTs) =>
       ref_used = SetMin({GreatestTimestamp(buffers[c]) :
                            c \in {d \in DOMAIN buffers : buffers[d] # <<>>}})

\* C18: after add_frame for a camera, no frame of that camera's buffer is
\* more than max_age_sec older than the current time.
C18_NoFramePastMaxAge ==
    sync_op.op = "add" =>
       \A i \in 1..Len(buffers[sync_op.cam]) :
          now - buffers[sync_op.cam][i].timestamp <= max_age_sec

\* C19: in every buffer the capture timestamps are non-decreasing from the
\* oldest slot to the newest.
C19_OrderedByTimestamp ==
    \A c \in DOMAIN buffers :
       \A i \in 1..Len(buffers[c]) :
          \A j \in 1..(i - 1) :
             buffers[c][j].timestamp <= buffers[c][i].timestamp

BoxA == <<0, 0, 2, 2>>
BoxB == <<1, 0, 3, 2>>
BoxC == <<4, 0, 6, 2>>
BoxZ == <<1, 0, 1, 2>>
Boxes == {BoxA, BoxB, BoxC}

\* the area of a bounding box, as calculate_iou computes it
Area(bbox) == (bbox[3] - bbox[1]) * (bbox[4] - bbox[2])

\* Optional[np.ndarray] None for a feature vector
NoFeatures == <<>>

\* SimpleTracker(min_hits=...): the values a tracker is configured with
MinHitsChoices == {2, 3, 4}
\* SimpleTracker(max_age=...)
max_age == 2
\* SimpleTracker(iou_threshold=0.3), as the fraction IouThresholdNum/IouThresholdDen
IouThresholdNum == 3
IouThresholdDen == 10
\* the age at which TrackedObject.update confirms a tentative track
ConfirmAge == 3
\* the numbers of detections in one call of update
DetCounts == 0..2
\* calls of SimpleTracker.update
MaxUpdates == 4

\* a detection as SimpleTracker.update takes it: (bbox, confidence, features);
\* the confidence is copied into the track and read by nothing
Det(bbox, features) == [bbox |-> bbox, features |-> features]

\* fractions <<p, q>> with q > 0
FracLess(a, b) == a[1] * b[2] < b[1] * a[2]
FracEq(a, b) == a[1] * b[2] = b[1] * a[2]

Max2(a, b) == IF a >= b THEN a ELSE b
Min2(a, b) == IF a <= b THEN a ELSE b

\* a calculate_iou whose union counts the intersection twice
calculate_iou_Double(bbox1, bbox2) ==
    LET x1 == Max2(bbox1[1], bbox2[1])
        y1 == Max2(bbox1[2], bbox2[2])
        x2 == Min2(bbox1[3], bbox2[3])
        y2 == Min2(bbox1[4], bbox2[4])
        intersection == Max2(0, x2 - x1) * Max2(0, y2 - y1)
        area1 == (bbox1[3] - bbox1[1]) * (bbox1[4] - bbox1[2])
        area2 == (bbox2[3] - bbox2[1]) * (bbox2[4] - bbox2[2])
        union == area1 + area2
    IN IF union > 0 THEN <<intersection, union>> ELSE <<0, 1>>

\* SimpleTracker.calculate_iou, as the fraction intersection / union
calculate_iou(bbox1, bbox2) ==
    LET x1 == Max2(bbox1[1], bbox2[1])
        y1 == Max2(bbox1[2], bbox2[2])
        x2 == Min2(bbox1[3], bbox2[3])
        y2 == Min2(bbox1[4], bbox2[4])
        intersection == Max2(0, x2 - x1) * Max2(0, y2 - y1)
        area1 == (bbox1[3] - bbox1[1]) * (bbox1[4] - bbox1[2])
        area2 == (bbox2[3] - bbox2[1]) * (bbox2[4] - bbox2[2])
        union == area1 + area2 - intersection
    IN IF union > 0 THEN <<intersection, union>> ELSE <<0, 1>>

\* global ids are the strings "T<n>" (a tracker's own) and "F<n>" (global)
Gid(tag, n) == [tag |-> tag, n |-> n]

\* TrackedObject(...) as SimpleTracker.update creates it; hits counts the
\* calls of TrackedObject.update on the track (not a field of the code)
NewTrack(id, det) ==
    [global_id |-> Gid("T", id), local_id |-> id, camera_id |-> 0,
     bbox |-> det.bbox, features |-> det.features,
     age |-> 0, time_since_update |-> 0, state |-> "tentative", hits |-> 0]

TrackedObject_update(t, det) ==
    [t EXCEPT !.bbox = det.bbox,
              !.features = IF det.features # NoFeatures THEN det.features ELSE @,
              !.time_since_update = 0,
              !.age = @ + 1,
              !.state = IF t.age + 1 >= ConfirmAge /\ @ = "tentative"
                        THEN "confirmed" ELSE @,
              !.hits = @ + 1]

\* a mark_missed that takes the step off the age
mark_missed_Younger(t) ==
    [t EXCEPT !.time_since_update = @ + 1, !.age = @ - 1]

\* a mark_missed that takes the confirmation back
mark_missed_Demote(t) ==
    [t EXCEPT !.time_since_update = @ + 1, !.age = @ + 1,
              !.state = "tentative"]

mark_missed(t) ==
    [t EXCEPT !.time_since_update = @ + 1, !.age = @ + 1]

\* iou_matrix[i, j] = calculate_iou(tracks[i].bbox, detections[j].bbox)
IouMatrix(tracks, dets) ==
    [i \in 1..Len(tracks), j \in 1..Len(dets) |->
        calculate_iou(tracks[i].bbox, dets[j].bbox)]

\* iou_matrix.argmax(): the first largest entry in row-major order
ArgMax(mat, n, m) ==
    LET before(a, b) == a[1] < b[1] \/ (a[1] = b[1] /\ a[2] < b[2])
    IN CHOOSE ij \in (1..n) \X (1..m) :
          /\ \A kl \in (1..n) \X (1..m) : ~FracLess(mat[ij], mat[kl])
          /\ \A kl \in (1..n) \X (1..m) :
                before(kl, ij) => FracLess(mat[kl], mat[ij])

\* the greedy matching loop: while True: ...
RECURSIVE GreedyMatch(_, _, _, _, _)
\* one round of the loop with ij the position of iou_matrix.max()
GreedyStep(mat, tracks, dets, matched_tracks, matched_detections, ij) ==
    IF FracLess(mat[ij], <<IouThresholdNum, IouThresholdDen>>)
    THEN [tracks |-> tracks, matched_tracks |-> matched_tracks,
          matched_detections |-> matched_detections]
    ELSE GreedyMatch(
            [kl \in (1..Len(tracks)) \X (1..Len(dets)) |->
                IF kl[1] = ij[1] \/ kl[2] = ij[2] THEN <<-1, 1>> ELSE mat[kl]],
            [tracks EXCEPT ![ij[1]] = TrackedObject_update(@, dets[ij[2]])],
            dets,
            matched_tracks \cup {ij[1]},
            matched_detections \cup {ij[2]})

GreedyMatch(mat, tracks, dets, matched_tracks, matched_detections) ==
    GreedyStep(mat, tracks, dets, matched_tracks, matched_detections,
               ArgMax(mat, Len(tracks), Len(dets)))

\* a tracker that numbers a new track with the count of its tracks
RECURSIVE CreateTracks_Reuse(_, _, _, _)
CreateTracks_Reuse(tracks, next_id, dets, unmatched) ==
    IF dets = <<>> THEN [tracks |-> tracks, next_id |-> next_id]
    ELSE IF Head(unmatched)
         THEN CreateTracks_Reuse(Append(tracks, NewTrack(Len(tracks), Head(dets))),
                                 Len(tracks) + 1, Tail(dets), Tail(unmatched))
         ELSE CreateTracks_Reuse(tracks, next_id, Tail(dets), Tail(unmatched))

\* for each unmatched detection, in order: a new track with the next id
RECURSIVE CreateTracks(_, _, _, _)
CreateTracks(tracks, next_id, dets, unmatched) ==
    IF dets = <<>> THEN [tracks |-> tracks, next_id |-> next_id]
    ELSE IF Head(unmatched)
         THEN CreateTracks(Append(tracks, NewTrack(next_id, Head(dets))),
                           next_id + 1, Tail(dets), Tail(unmatched))
         ELSE CreateTracks(tracks, next_id, Tail(dets), Tail(unmatched))

\* a purge that lets a track reach max_age
KeepTrack_Late(t) == t.time_since_update <= max_age

\* if t.time_since_update < self.max_age
KeepTrack(t) == t.time_since_update < max_age

\* if t.age >= self.min_hits
IsReturned(t, min_hits) == t.age >= min_hits

\* for i, track in enumerate(self.tracks): if i not in matched_tracks:
\* track.mark_missed()
MarkMissed(g) ==
    [i \in 1..Len(g.tracks) |->
        IF i \in g.matched_tracks THEN g.tracks[i] ELSE mark_missed(g.tracks[i])]

\* the list update returns, of the tracks it kept
Returned(kept, next_id, min_hits) ==
    [tracks |-> kept, next_id |-> next_id,
     out |-> SelectSeq(kept, LAMBDA t : IsReturned(t, min_hits)),
     raised |-> FALSE]

\* the purge of the old tracks, once the new tracks were created
Purged(created, min_hits) ==
    Returned(SelectSeq(created.tracks, KeepTrack), created.next_id, min_hits)

\* the steps of update after the matching g
Matched(g, next_id, dets, min_hits) ==
    Purged(CreateTracks(MarkMissed(g), next_id, dets,
                        [j \in 1..Len(dets) |-> j \notin g.matched_detections]),
           min_hits)

\* SimpleTracker.update(detections) on the tracker (tracks, next_id):
\* the tracker after the call, the list returned and whether the call raised.
\* With tracks and no detection iou_matrix is empty and iou_matrix.max()
\* raises ValueError before anything is changed.
SimpleTracker_update(tracks, next_id, dets, min_hits) ==
    IF tracks # <<>> /\ dets = <<>>
    THEN [tracks |-> tracks, next_id |-> next_id, out |-> <<>>, raised |-> TRUE]
    ELSE IF tracks = <<>>
    THEN Matched([tracks |-> tracks, matched_tracks |-> {},
                  matched_detections |-> {}], next_id, dets, min_hits)
    ELSE Matched(GreedyMatch(IouMatrix(tracks, dets), tracks, dets, {}, {}),
                 next_id, dets, min_hits)

\* what a call of update leaves behind when it ended as r
SimpleEffect(r) ==
    /\ st_tracks' = r.tracks
    /\ st_next_id' = r.next_id
    /\ st_out' = r.out
    /\ st_raised' = r.raised

\* the lists of detections update is called with: up to two proper boxes,
\* or one degenerate box
DetLists ==
    UNION {[1..k -> {Det(b, NoFeatures) : b \in Boxes}] : k \in DetCounts}
       \cup {<<Det(BoxZ, NoFeatures)>>}

SimpleInit ==
    /\ st_min_hits \in MinHitsChoices
    /\ st_tracks = <<>>
    /\ st_next_id = 0
    /\ st_dets = <<>>
    /\ st_purged = FALSE
    /\ st_out = <<>>
    /\ st_raised = FALSE
    /\ st_updates = 0

\* SimpleTracker.update(detections)
SimpleUpdate(dets) ==
    /\ st_updates < MaxUpdates
    /\ st_updates' = st_updates + 1
    /\ st_dets' = dets
    /\ st_purged' = (Len(st_tracks) < st_next_id)
    /\ SimpleEffect(SimpleTracker_update(st_tracks, st_next_id, dets,
                                         st_min_hits))
    /\ UNCHANGED st_min_hits
    /\ SimpleOnly

SimpleNext == \E dets \in DetLists : SimpleUpdate(dets)

\* the same tracker followed for longer, with at most one detection a call
MaxWatchUpdates == 6
WatchLists == {<<>>} \cup {<<Det(b, NoFeatures)>> : b \in {BoxA, BoxC}}

\* SimpleTracker.update(detections)
WatchUpdate(dets) ==
    /\ st_updates < MaxWatchUpdates
    /\ st_updates' = st_updates + 1
    /\ st_dets' = dets
    /\ st_purged' = (Len(st_tracks) < st_next_id)
    /\ SimpleEffect(SimpleTracker_update(st_tracks, st_next_id, dets,
                                         st_min_hits))
    /\ UNCHANGED st_min_hits
    /\ SimpleOnly

WatchNext == \E dets \in WatchLists : WatchUpdate(dets)

(***************************************************************************)
(* Properties of SimpleTracker                                             *)
(***************************************************************************)
\* C2: with min_hits = k a track that received fewer than k matching
\* detections is never Confirmed. The detection that created the track is
\* counted with the hits, the calls of TrackedObject.update on it.
C2_ConfirmedNeedsMinHits ==
    \A i \in 1..Len(st_tracks) :
        st_tracks[i].state = "confirmed" => st_tracks[i].hits + 1 >= st_min_hits

\* C3: every track in the list SimpleTracker.update returns is Confirmed.
C3_OnlyConfirmedReturned ==
    \A i \in 1..Len(st_out) : st_out[i].state = "confirmed"

\* C4: every track retained by an update has time_since_update < max_age,
\* the returned list holds retained tracks only, and a track that left the
\* list is in the list of no later update.
C4_PurgedAtMaxAge ==
    [][/\ \A i \in 1..Len(st_tracks') :
             st_tracks'[i].time_since_update < max_age
       /\ \A i \in 1..Len(st_out') :
             \E j \in 1..Len(st_tracks') : st_tracks'[j] = st_out'[i]
       /\ \A j \in 1..Len(st_tracks') :
             st_tracks'[j].local_id < st_next_id =>
                \E i \in 1..Len(st_tracks) :
                    st_tracks[i].local_id = st_tracks'[j].local_id]_vars

\* an update purged a track, kept one that is a miss away from the purge,
\* and returned a track
C4_Witness ==
    /\ Len(st_tracks) < st_next_id
    /\ \E i \in 1..Len(st_tracks) :
          st_tracks[i].time_since_update = max_age - 1
    /\ st_out # <<>>

\* the track t is, in the tracks after the step, one step older and one
\* step longer unseen with the same box, or purged
Missed(t, after) ==
    \/ \E j \in 1..Len(after) : after[j] = mark_missed(t)
    \/ /\ ~KeepTrack(mark_missed(t))
       /\ \A j \in 1..Len(after) : after[j].local_id # t.local_id

\* C21: update with an empty detection list while tracks exist does not
\* raise, marks every existing track as missed, creates no track and returns
\* the tracks that have reached min_hits.
C21_EmptyUpdateMarksMissed ==
    [][(st_tracks # <<>> /\ SimpleUpdate(<<>>)) =>
          /\ ~st_raised'
          /\ st_next_id' = st_next_id
          /\ \A i \in 1..Len(st_tracks) : Missed(st_tracks[i], st_tracks')
          /\ st_out' = SelectSeq(st_tracks',
                                 LAMBDA t : IsReturned(t, st_min_hits))]_vars

\* C22: a detection with a zero-area bounding box is rejected by update: no
\* track is created with it or updated to it.
C22_DegenerateRejected ==
    \A i \in 1..Len(st_tracks) : Area(st_tracks[i].bbox) > 0

\* the tracks of before that the step matched: seen again, one step older
MatchedBy(before, after) ==
    {i \in 1..Len(before) :
        \E j \in 1..Len(after) :
            /\ after[j].local_id = before[i].local_id
            /\ after[j].time_since_update = 0
            /\ after[j].age = before[i].age + 1}

\* C32: every detection left unmatched in an update creates exactly one new
\* Tentative track, and the local_ids of a tracker are strictly increasing in
\* creation order and never reused, even after the track that held an id has
\* been purged.
C32_UnmatchedCreateFreshTracks ==
    [][LET created == {j \in 1..Len(st_tracks') :
                           st_tracks'[j].local_id >= st_next_id}
           unmatched == Len(st_dets')
                           - Cardinality(MatchedBy(st_tracks, st_tracks'))
       IN /\ Cardinality(created) = unmatched
          /\ st_next_id' = st_next_id + unmatched
          /\ \A j \in created :
                /\ st_tracks'[j].state = "tentative"
                /\ st_tracks'[j].local_id < st_next_id'
                /\ \E k \in 1..Len(st_dets') :
                      st_tracks'[j].bbox = st_dets'[k].bbox
          /\ \A j, k \in 1..Len(st_tracks') :
                j < k => st_tracks'[j].local_id < st_tracks'[k].local_id
          /\ \A i \in 1..Len(st_tracks) :
                st_tracks[i].local_id < st_next_id]_vars

\* a track was purged and a detection of a later update created a track
C32_Witness ==
    /\ st_purged
    /\ st_tracks # <<>>
    /\ st_tracks[Len(st_tracks)].age = 0
    /\ st_tracks[Len(st_tracks)].local_id = st_next_id - 1

\* C33: the local-track state machine has no transitions other than
\* Tentative->Confirmed and purge: a track that has become Confirmed stays
\* Confirmed in every later state until it is purged, and a purged track
\* never reappears in the tracker.
C33_ConfirmedUntilPurged ==
    [][/\ \A j \in 1..Len(st_tracks') :
             st_tracks'[j].state \in {"tentative", "confirmed"}
       /\ \A i \in 1..Len(st_tracks), j \in 1..Len(st_tracks') :
             /\ st_tracks'[j].local_id = st_tracks[i].local_id
             /\ st_tracks[i].state = "confirmed"
             => st_tracks'[j].state = "confirmed"
       /\ \A j \in 1..Len(st_tracks') :
             \/ st_tracks'[j].local_id >= st_next_id
             \/ \E i \in 1..Len(st_tracks) :
                   st_tracks[i].local_id = st_tracks'[j].local_id]_vars

\* after a purge, a Confirmed track went through a miss and a track was
\* created
C33_Witness ==
    /\ st_purged
    /\ \E i \in 1..Len(st_tracks) :
          /\ st_tracks[i].state = "confirmed"
          /\ st_tracks[i].time_since_update > 0
    /\ \E i \in 1..Len(st_tracks) : st_tracks[i].age = 0

(***************************************************************************)
(* MultiCameraTracker (ai/tracker.py): global identities by ReID           *)
(***************************************************************************)
\* feature vectors; cosine similarities: Emb1.Emb2 = 0.894, Emb2.Emb3 = 0.8,
\* Emb1.Emb3 = 0.447
Emb1 == <<2, 0>>
Emb2 == <<2, 1>>
Emb3 == <<1, 2>>
Embeddings == {Emb1, Emb2, Emb3}

\* MultiCameraTracker(min_hits=...): the values it is configured with
McMinHitsChoices == {0, 1}
\* MultiCameraTracker(reid_threshold=0.7), as ReidThresholdNum/ReidThresholdDen
ReidThresholdNum == 7
ReidThresholdDen == 10
\* 0.7 * prototype + 0.3 * features, in tenths
EmaOld == 7
EmaNew == 3
\* the boxes the cameras of a MultiCameraTracker detect
McBoxes == {BoxA, BoxC}
\* local ids _assign_global_id is called with directly
McLocalIds == 0..1
\* the numbers of detections of one camera in one call of
\* MultiCameraTracker.update
McDetCounts == 0..1
\* calls of MultiCameraTracker.update and of _assign_global_id
MaxMcOps == 3
\* calls of MultiCameraTracker.reset
MaxResets == 1

Dot(a, b) == a[1] * b[1] + a[2] * b[2]

Sign(x) == IF x > 0 THEN 1 ELSE IF x < 0 THEN -1 ELSE 0

RECURSIVE Gcd(_, _)
Gcd(a, b) == IF b = 0 THEN a ELSE Gcd(b, a % b)

\* a/b > c/d for a, c >= 0 and b, d > 0, without forming the products
RECURSIVE RatGT(_, _, _, _)
RatGT(a, b, c, d) ==
    LET qa == a \div b
        qc == c \div d
        ra == a % b
        rc == c % d
    IN IF qa # qc THEN qa > qc
       ELSE IF ra = 0 THEN FALSE
       ELSE IF rc = 0 THEN TRUE
       ELSE RatGT(d, rc, b, ra)

\* A cosine similarity, kept exactly as its sign and its square sq[1]/sq[2].
\* _calculate_feature_similarity normalises with norm + 1e-8, which makes
\* the similarity of a zero vector 0 and moves no other comparison made here.
Similarity(features1, features2) ==
    LET d == Dot(features1, features2)
        n == Dot(features1, features1) * Dot(features2, features2)
    IN IF n = 0 THEN [sgn |-> 0, sq |-> <<0, 1>>]
       ELSE [sgn |-> Sign(d), sq |-> <<d * d, n>>]

\* similarity s > similarity t
SimGreater(s, t) ==
    IF s.sgn # t.sgn THEN s.sgn > t.sgn
    ELSE IF s.sgn = 1 THEN RatGT(s.sq[1], s.sq[2], t.sq[1], t.sq[2])
    ELSE IF s.sgn = -1 THEN RatGT(t.sq[1], t.sq[2], s.sq[1], s.sq[2])
    ELSE FALSE

\* a threshold p/q >= 0 as a similarity
SimOf(p, q) == [sgn |-> Sign(p), sq |-> <<p * p, q * q>>]

\* a prototype is the vector num / den; features seed it as they are
Proto(features) == [num |-> features, den |-> 1]

ProtoReduce(p) ==
    LET g == Gcd(Gcd(Abs(p.num[1]), Abs(p.num[2])), p.den)
    IN [num |-> <<p.num[1] \div g, p.num[2] \div g>>, den |-> p.den \div g]

\* 0.7 * self.global_features[best_match_id] + 0.3 * features
Ema(p, features) ==
    ProtoReduce([num |-> <<EmaOld * p.num[1] + EmaNew * p.den * features[1],
                           EmaOld * p.num[2] + EmaNew * p.den * features[2]>>,
                 den |-> (EmaOld + EmaNew) * p.den])

\* self.local_to_global is a defaultdict(dict): reading a camera's entry
\* creates it
Touch(l2g, camera_id) ==
    IF camera_id \in DOMAIN l2g THEN l2g
    ELSE (camera_id :> [l \in {} |-> Gid("F", 0)]) @@ l2g

\* a resolver that looks no binding up
AlreadyBound_Never(l2g, camera_id, local_id) == FALSE

\* if local_id in self.local_to_global[camera_id]
AlreadyBound(l2g, camera_id, local_id) ==
    camera_id \in DOMAIN l2g /\ local_id \in DOMAIN l2g[camera_id]

\* a counter that stands still
NextGlobalId_Same(n) == n

\* self.next_global_id += 1
NextGlobalId(n) == n + 1

\* self.global_features[global_id] = features
SetFeatures(gf, global_id, features) ==
    IF \E i \in 1..Len(gf) : gf[i].gid = global_id
    THEN [i \in 1..Len(gf) |->
             IF gf[i].gid = global_id
             THEN [gid |-> global_id, proto |-> Proto(features)] ELSE gf[i]]
    ELSE Append(gf, [gid |-> global_id, proto |-> Proto(features)])

\* the registry of a MultiCameraTracker
Registry(l2g, gf, next, stats) ==
    [l2g |-> l2g, gf |-> gf, next |-> next, stats |-> stats]

\* a creation that seeds a zero vector as the prototype of a track that has
\* no features
MintGlobalId_ZeroVector(reg, local_id, camera_id, features) ==
    LET global_id == Gid("F", reg.next)
    IN [reg |-> [reg EXCEPT
                    !.next = NextGlobalId(@),
                    !.l2g[camera_id] = (local_id :> global_id) @@ @,
                    !.gf = SetFeatures(@, global_id,
                              IF features # NoFeatures THEN features
                              ELSE <<0, 0>>),
                    !.stats.new_ids_created = @ + 1],
        gid |-> global_id, minted |-> TRUE]

\* the two places where _assign_global_id creates a new global id
MintGlobalId(reg, local_id, camera_id, features) ==
    LET global_id == Gid("F", reg.next)
    IN [reg |-> [reg EXCEPT
                    !.next = NextGlobalId(@),
                    !.l2g[camera_id] = (local_id :> global_id) @@ @,
                    !.gf = IF features # NoFeatures
                           THEN SetFeatures(@, global_id, features) ELSE @,
                    !.stats.new_ids_created = @ + 1],
        gid |-> global_id, minted |-> TRUE]

\* a loop that keeps the last prototype above the threshold
BestMatch_LastAbove(gf, features, i, best_match, best_similarity) ==
    LET above == {k \in 1..Len(gf) :
                     SimGreater(Similarity(features, gf[k].proto.num),
                                SimOf(ReidThresholdNum, ReidThresholdDen))}
    IN IF above = {} THEN 0 ELSE CHOOSE k \in above : \A m \in above : m <= k

\* a loop that finds no match
BestMatch_None(gf, features, i, best_match, best_similarity) == 0

\* a loop that takes the first prototype whatever its similarity
BestMatch_First(gf, features, i, best_match, best_similarity) == 1

\* the loop over self.global_features.items(): the index of the best match,
\* 0 for None
RECURSIVE BestMatch(_, _, _, _, _)
BestMatch(gf, features, i, best_match, best_similarity) ==
    IF i > Len(gf) THEN best_match
    ELSE LET similarity == Similarity(features, gf[i].proto.num)
         IN IF /\ SimGreater(similarity, best_similarity)
               /\ SimGreater(similarity,
                             SimOf(ReidThresholdNum, ReidThresholdDen))
            THEN BestMatch(gf, features, i + 1, i, similarity)
            ELSE BestMatch(gf, features, i + 1, best_match, best_similarity)

\* a resolver that refreshes the prototype of a bound track with the
\* embedding it is called with
assign_global_id_Refresh(reg0, local_id, camera_id, features) ==
    LET reg == [reg0 EXCEPT !.l2g = Touch(@, camera_id)]
    IN IF AlreadyBound(reg.l2g, camera_id, local_id)
       THEN [reg |-> [reg EXCEPT !.gf =
                        IF features # NoFeatures
                        THEN SetFeatures(@, reg.l2g[camera_id][local_id],
                                         features)
                        ELSE @],
             gid |-> reg.l2g[camera_id][local_id], minted |-> FALSE]
       ELSE IF features = NoFeatures \/ Len(reg.gf) = 0
       THEN MintGlobalId(reg, local_id, camera_id, features)
       ELSE LET best == BestMatch(reg.gf, features, 1, 0, SimOf(0, 1))
            IN IF best # 0
               THEN [reg |-> [reg EXCEPT
                        !.l2g[camera_id] = (local_id :> reg.gf[best].gid) @@ @,
                        !.gf[best].proto = Ema(@, features),
                        !.stats.reid_matches = @ + 1],
                     gid |-> reg.gf[best].gid, minted |-> FALSE]
               ELSE MintGlobalId(reg, local_id, camera_id, features)

\* MultiCameraTracker._assign_global_id(local_id, camera_id, features):
\* the registry after the call, the id returned, whether it was minted
assign_global_id(reg0, local_id, camera_id, features) ==
    LET reg == [reg0 EXCEPT !.l2g = Touch(@, camera_id)]
    IN IF AlreadyBound(reg.l2g, camera_id, local_id)
       THEN [reg |-> reg, gid |-> reg.l2g[camera_id][local_id],
             minted |-> FALSE]
       ELSE IF features = NoFeatures \/ Len(reg.gf) = 0
       THEN MintGlobalId(reg, local_id, camera_id, features)
       ELSE LET best == BestMatch(reg.gf, features, 1, 0, SimOf(0, 1))
            IN IF best # 0
               THEN [reg |-> [reg EXCEPT
                        !.l2g[camera_id] = (local_id :> reg.gf[best].gid) @@ @,
                        !.gf[best].proto = Ema(@, features),
                        !.stats.reid_matches = @ + 1],
                     gid |-> reg.gf[best].gid, minted |-> FALSE]
               ELSE MintGlobalId(reg, local_id, camera_id, features)

\* ---- history of the resolver calls
LastTwo(log) == IF Len(log) > 2 THEN SubSeq(log, Len(log) - 1, Len(log)) ELSE log

\* a MultiCameraTracker with its history
World(reg, rlog, mlog) == [reg |-> reg, res_log |-> rlog, mint_log |-> mlog]

\* the history after a call of _assign_global_id that returned r
Recorded(w, local_id, camera_id, features, r) ==
    [w |-> World(r.reg,
                 LastTwo(Append(w.res_log,
                    [camera_id |-> camera_id, local_id |-> local_id,
                     features |-> features, global_id |-> r.gid,
                     fresh |-> ~AlreadyBound(w.reg.l2g, camera_id, local_id),
                     minted |-> r.minted,
                     protos_before |-> Len(w.reg.gf)])),
                 IF r.minted THEN Append(w.mint_log, r.gid.n)
                 ELSE w.mint_log),
     gid |-> r.gid]

\* one call of _assign_global_id, recorded
Resolve(w, local_id, camera_id, features) ==
    Recorded(w, local_id, camera_id, features,
             assign_global_id(w.reg, local_id, camera_id, features))

\* track.global_id = global_id; track.camera_id = camera_id
BindTrack(t, camera_id, global_id) ==
    [t EXCEPT !.global_id = global_id, !.camera_id = camera_id]

\* the track object is the one the tracker's list holds
ReplaceTrack(tracks, track) ==
    [i \in 1..Len(tracks) |->
        IF tracks[i].local_id = track.local_id THEN track ELSE tracks[i]]

\* the loop of update over the tracks tracker.update returned: each gets its
\* global id, written into the track object
RECURSIVE ResolveTracks(_, _, _, _, _)
\* the rest of the loop after the first track's resolution r
ResolveRest(r, camera_id, returned, tracks, all_tracked_objects) ==
    ResolveTracks(r.w, camera_id, Tail(returned),
        ReplaceTrack(tracks, BindTrack(Head(returned), camera_id, r.gid)),
        Append(all_tracked_objects, BindTrack(Head(returned), camera_id, r.gid)))

ResolveTracks(w, camera_id, returned, tracks, all_tracked_objects) ==
    IF returned = <<>>
    THEN [w |-> w, tracks |-> tracks, all |-> all_tracked_objects]
    ELSE ResolveRest(Resolve(w, Head(returned).local_id, camera_id,
                             Head(returned).features),
                     camera_id, returned, tracks, all_tracked_objects)

\* self._get_or_create_tracker(camera_id), without DeepSORT
get_or_create_tracker(trks, camera_id) ==
    IF camera_id \in DOMAIN trks THEN trks
    ELSE (camera_id :> [tracks |-> <<>>, next_id |-> 0]) @@ trks

\* det_list = [(det.bbox, det.confidence, None) for det in detections]
DetList(detections) ==
    [j \in 1..Len(detections) |-> Det(detections[j].bbox, NoFeatures)]

\* the loop of update over detections_per_camera.items(), SimpleTracker branch
RECURSIVE UpdateCameras(_, _, _, _, _)
\* the next cameras, after this camera's tracks were resolved with result r
CameraDone(r, trks, camera_id, next_id, rest, min_hits) ==
    UpdateCameras(r.w,
        [trks EXCEPT ![camera_id] = [tracks |-> r.tracks, next_id |-> next_id]],
        rest, r.all, min_hits)

\* the resolution of the tracks this camera's tracker.update returned as u
CameraTracked(u, w, trks, camera_id, rest, all_tracked_objects, min_hits) ==
    CameraDone(ResolveTracks(w, camera_id, u.out, u.tracks, all_tracked_objects),
               trks, camera_id, u.next_id, rest, min_hits)

\* one camera with detections: tracks = tracker.update(det_list)
UpdateCamera(w, trks, camera_id, detections, rest, all_tracked_objects, min_hits) ==
    CameraTracked(SimpleTracker_update(trks[camera_id].tracks,
                                       trks[camera_id].next_id,
                                       DetList(detections), min_hits),
                  w, trks, camera_id, rest, all_tracked_objects, min_hits)

UpdateCameras(w, trks, detections_per_camera, all_tracked_objects, min_hits) ==
    IF detections_per_camera = <<>>
    THEN [w |-> w, trackers |-> trks, all |-> all_tracked_objects]
    ELSE IF Head(detections_per_camera).detections = <<>>
    THEN UpdateCameras(w, trks, Tail(detections_per_camera),
                       all_tracked_objects, min_hits)
    ELSE UpdateCamera(w,
            get_or_create_tracker(trks, Head(detections_per_camera).camera_id),
            Head(detections_per_camera).camera_id,
            Head(detections_per_camera).detections,
            Tail(detections_per_camera), all_tracked_objects, min_hits)

\* the dicts {camera_id: [detections]} update is called with, as the lists of
\* their items
McDetLists(features) ==
    UNION {[1..k -> {Det(b, features) : b \in McBoxes}] : k \in McDetCounts}

\* every camera has an entry, an empty list when it detected nothing; the
\* detections of camera 1 carry an embedding, those of camera 0 carry none
McInputs ==
    {<<[camera_id |-> 0, detections |-> d0],
       [camera_id |-> 1, detections |-> d1]>> :
       d0 \in McDetLists(NoFeatures), d1 \in McDetLists(Emb1)}

NoStats == [total_tracks |-> 0, active_global_ids |-> 0, reid_matches |-> 0,
            new_ids_created |-> 0]

MultiInit ==
    /\ mc_min_hits \in McMinHitsChoices
    /\ trackers = <<>>
    /\ local_to_global = <<>>
    /\ global_features = <<>>
    /\ next_global_id = 0
    /\ mc_stats = NoStats
    /\ mc_out = <<>>
    /\ mc_last_op = "init"
    /\ res_log = <<>>
    /\ mint_log = <<>>
    /\ minted_before = {}
    /\ mc_ops = [calls |-> 0, resets |-> 0]

TheWorld ==
    World(Registry(local_to_global, global_features, next_global_id, mc_stats),
          res_log, mint_log)

\* the effect of a call on the registry and its history
SetWorld(w) ==
    /\ local_to_global' = w.reg.l2g
    /\ global_features' = w.reg.gf
    /\ next_global_id' = w.reg.next
    /\ res_log' = w.res_log
    /\ mint_log' = w.mint_log

\* what update leaves behind when its loop ended as r
UpdateEffect(r) ==
    /\ SetWorld(r.w)
    /\ trackers' = r.trackers
    /\ mc_out' = r.all
    /\ mc_stats' = [r.w.reg.stats EXCEPT
          !.total_tracks = Len(r.all),
          !.active_global_ids =
              Cardinality({r.all[i].global_id : i \in 1..Len(r.all)})]

\* MultiCameraTracker.update(detections_per_camera)
McUpdate(detections_per_camera) ==
    /\ mc_ops.calls < MaxMcOps
    /\ mc_ops' = [mc_ops EXCEPT !.calls = @ + 1]
    /\ UpdateEffect(UpdateCameras(TheWorld, trackers, detections_per_camera,
                                  <<>>, mc_min_hits))
    /\ mc_last_op' = "update"
    /\ UNCHANGED <<mc_min_hits, minted_before>>
    /\ MultiOnly

\* what a direct call of _assign_global_id leaves behind
AssignEffect(r) ==
    /\ SetWorld(r.w)
    /\ mc_stats' = r.w.reg.stats

\* MultiCameraTracker._assign_global_id(local_id, camera_id, features)
McAssign(local_id, camera_id, features) ==
    /\ mc_ops.calls < MaxMcOps
    /\ mc_ops' = [mc_ops EXCEPT !.calls = @ + 1]
    /\ AssignEffect(Resolve(TheWorld, local_id, camera_id, features))
    /\ mc_last_op' = "assign"
    /\ UNCHANGED <<mc_min_hits, trackers, mc_out, minted_before>>
    /\ MultiOnly

\* MultiCameraTracker.reset(); the statistics are left as they are
McReset ==
    /\ mc_ops.resets < MaxResets
    /\ mc_ops' = [mc_ops EXCEPT !.resets = @ + 1]
    /\ trackers' = <<>>
    /\ local_to_global' = <<>>
    /\ global_features' = <<>>
    /\ next_global_id' = 0
    /\ mc_last_op' = "reset"
    /\ res_log' = <<>>
    /\ mint_log' = <<>>
    /\ minted_before' = minted_before \cup {mint_log[i] : i \in 1..Len(mint_log)}
    /\ UNCHANGED <<mc_min_hits, mc_stats, mc_out>>
    /\ MultiOnly

MultiNext ==
    \/ \E dpc \in McInputs : McUpdate(dpc)
    \/ \E l \in McLocalIds, c \in Cameras, f \in {NoFeatures} \cup Embeddings :
          McAssign(l, c, f)
    \/ McReset

(***************************************************************************)
(* Properties of MultiCameraTracker                                        *)
(***************************************************************************)
\* the last two calls of _assign_global_id resolved two unbound tracks that
\* carry embeddings
TwoFresh ==
    /\ Len(res_log) = 2
    /\ res_log[1].fresh /\ res_log[2].fresh
    /\ res_log[1].features # NoFeatures /\ res_log[2].features # NoFeatures

\* the cosine similarity of the embeddings of the last two resolutions
LastSimilarity == Similarity(res_log[1].features, res_log[2].features)

ReidThreshold == SimOf(ReidThresholdNum, ReidThresholdDen)

\* C5: a call of update or of _assign_global_id changes no binding of a
\* (camera_id, local_id) pair, and every resolution returns the global id
\* the pair is bound to, whatever embedding it is resolved with.
C5_StickyIdentity ==
    [][mc_last_op' # "reset" =>
         /\ \A c \in DOMAIN local_to_global :
               \A l \in DOMAIN local_to_global[c] :
                  /\ AlreadyBound(local_to_global', c, l)
                  /\ local_to_global'[c][l] = local_to_global[c][l]
         /\ \A i \in 1..Len(res_log') :
               /\ AlreadyBound(local_to_global', res_log'[i].camera_id,
                               res_log'[i].local_id)
               /\ local_to_global'[res_log'[i].camera_id][res_log'[i].local_id]
                     = res_log'[i].global_id]_vars

\* a bound pair was resolved again, with another embedding
C5_Witness ==
    /\ Len(res_log) = 2
    /\ ~res_log[2].fresh
    /\ res_log[1].camera_id = res_log[2].camera_id
    /\ res_log[1].local_id = res_log[2].local_id
    /\ res_log[1].features # res_log[2].features
    /\ res_log[2].features # NoFeatures

\* C6: from a registry without prototypes, two tracks of different cameras
\* with embeddings more similar than reid_threshold, resolved one after the
\* other, get the same global id, and only the first resolution mints one.
C6_ReidStability ==
    (/\ TwoFresh
     /\ res_log[1].protos_before = 0
     /\ res_log[1].camera_id # res_log[2].camera_id
     /\ SimGreater(LastSimilarity, ReidThreshold))
    => /\ res_log[1].global_id = res_log[2].global_id
       /\ res_log[1].minted
       /\ ~res_log[2].minted

\* two similar, different embeddings of two cameras were resolved from an
\* empty registry
C6_Witness ==
    /\ TwoFresh
    /\ res_log[1].protos_before = 0
    /\ res_log[1].camera_id # res_log[2].camera_id
    /\ res_log[1].features # res_log[2].features
    /\ SimGreater(LastSimilarity, ReidThreshold)

\* C7, as stated: two unbound tracks with embeddings less similar than
\* reid_threshold, resolved one after the other, get two distinct global ids.
C7_SeparationAlways ==
    (TwoFresh /\ SimGreater(ReidThreshold, LastSimilarity))
    => res_log[1].global_id # res_log[2].global_id

\* C7, from a registry without prototypes: two unbound tracks with
\* embeddings less similar than reid_threshold, resolved one after the
\* other, get two distinct global ids.
C7_SeparationFromEmpty ==
    (/\ TwoFresh
     /\ res_log[1].protos_before = 0
     /\ SimGreater(ReidThreshold, LastSimilarity))
    => res_log[1].global_id # res_log[2].global_id

\* two dissimilar embeddings were resolved from an empty registry
C7_Witness ==
    /\ TwoFresh
    /\ res_log[1].protos_before = 0
    /\ SimGreater(ReidThreshold, LastSimilarity)
    /\ res_log[1].minted /\ res_log[2].minted

\* C8: two distinct local tracks of one camera, resolved one after the
\* other, never get the same global id.
C8_OnePerCamera ==
    (/\ Len(res_log) = 2
     /\ res_log[1].camera_id = res_log[2].camera_id
     /\ res_log[1].local_id # res_log[2].local_id)
    => res_log[1].global_id # res_log[2].global_id

\* C9, as stated: the number of every minted global id is greater than the
\* number of every id minted before it, over update, _assign_global_id and
\* reset.
C9_IncreasingAlways ==
    /\ \A i, j \in 1..Len(mint_log) : i < j => mint_log[i] < mint_log[j]
    /\ \A i \in 1..Len(mint_log) : \A n \in minted_before : n < mint_log[i]

\* C9, between resets: the number of every minted global id is greater than
\* the number of every id minted before it since the construction or the
\* last reset.
C9_IncreasingSinceReset ==
    \A i, j \in 1..Len(mint_log) : i < j => mint_log[i] < mint_log[j]

\* ids were minted, the tracker was reset, and two more ids were minted
C9_Witness ==
    /\ minted_before # {}
    /\ Len(mint_log) >= 2

\* the track t of a tracker is, in the tracks after the step, either one
\* step older and one step longer unseen, or purged
SteppedUnseen(t, after) ==
    \/ \E j \in 1..Len(after) :
          /\ after[j].local_id = t.local_id
          /\ after[j].age = t.age + 1
          /\ after[j].time_since_update = t.time_since_update + 1
    \/ /\ t.time_since_update + 1 > max_age
       /\ \A j \in 1..Len(after) : after[j].local_id # t.local_id

\* C20: on an update step in which a camera has an entry with no detections,
\* every track of that camera's tracker is stepped: its age and
\* time_since_update grow by one, or it is purged for being unseen longer
\* than max_age.
C20_IdleCameraStepped ==
    [][\A dpc \in McInputs :
          McUpdate(dpc) =>
             \A k \in 1..Len(dpc) :
                (dpc[k].detections = <<>>
                    /\ dpc[k].camera_id \in DOMAIN trackers) =>
                   \A i \in 1..Len(trackers[dpc[k].camera_id].tracks) :
                      SteppedUnseen(trackers[dpc[k].camera_id].tracks[i],
                                    trackers'[dpc[k].camera_id].tracks)]_vars

\* the prototype after is 0.7 * the prototype before + 0.3 * features
IsEmaOf(after, before, features) ==
    \A k \in 1..2 :
        (EmaOld + EmaNew) * after.num[k] * before.den =
            (EmaOld * before.num[k] + EmaNew * before.den * features[k])
               * after.den

\* C35: for an unbound track with an embedding and a non-empty registry,
\* _assign_global_id binds the track to the prototype of maximum cosine
\* similarity if and only if that similarity exceeds reid_threshold (then
\* updating only that prototype by the 0.7/0.3 average and counting one reid
\* match); otherwise it mints a new global_id seeded with the track's
\* embedding.
C35_BindsToMostSimilar ==
    [][LET call == res_log'[Len(res_log')]
           sim(i) == Similarity(call.features, global_features[i].proto.num)
           protos == 1..Len(global_features)
           most == {i \in protos : \A k \in protos : ~SimGreater(sim(k), sim(i))}
           global_id == local_to_global'[call.camera_id][call.local_id]
       IN (/\ mc_last_op' = "assign"
           /\ call.fresh
           /\ call.features # NoFeatures
           /\ global_features # <<>>)
          => IF \E i \in most : SimGreater(sim(i), ReidThreshold)
             THEN /\ \E i \in most :
                        /\ global_id = global_features[i].gid
                        /\ Len(global_features') = Len(global_features)
                        /\ \A k \in protos \ {i} :
                              global_features'[k] = global_features[k]
                        /\ global_features'[i].gid = global_id
                        /\ IsEmaOf(global_features'[i].proto,
                                   global_features[i].proto, call.features)
                  /\ mc_stats'.reid_matches = mc_stats.reid_matches + 1
                  /\ mc_stats'.new_ids_created = mc_stats.new_ids_created
                  /\ next_global_id' = next_global_id
             ELSE /\ global_id = Gid("F", next_global_id)
                  /\ next_global_id' = next_global_id + 1
                  /\ global_features' =
                        Append(global_features,
                               [gid |-> global_id,
                                proto |-> Proto(call.features)])
                  /\ mc_stats'.new_ids_created = mc_stats.new_ids_created + 1
                  /\ mc_stats'.reid_matches = mc_stats.reid_matches]_vars

\* an unbound track was bound to the second of two prototypes
C35_Witness ==
    /\ mc_last_op = "assign"
    /\ Len(res_log) = 2
    /\ res_log[2].fresh
    /\ res_log[2].features # NoFeatures
    /\ res_log[2].protos_before = 2
    /\ ~res_log[2].minted
    /\ res_log[2].global_id = global_features[2].gid

\* the step left the registry as it was
RegistryUnchanged ==
    /\ local_to_global' = local_to_global
    /\ global_features' = global_features
    /\ next_global_id' = next_global_id
    /\ mc_stats'.new_ids_created = mc_stats.new_ids_created
    /\ mc_stats'.reid_matches = mc_stats.reid_matches

\* C36: resolving a track whose (camera_id, local_id) is already bound
\* changes nothing in the registry: prototypes, bindings, the next-id counter
\* and the new_ids_created / reid_matches counters are all unchanged by that
\* call, be it a direct call or the calls of an update all of whose returned
\* tracks are bound.
C36_BoundResolutionChangesNothing ==
    [][/\ (mc_last_op' = "assign" /\ ~res_log'[Len(res_log')].fresh)
             => RegistryUnchanged
       /\ (/\ mc_last_op' = "update"
           /\ \A i \in 1..Len(mc_out') :
                 AlreadyBound(local_to_global, mc_out'[i].camera_id,
                              mc_out'[i].local_id))
             => RegistryUnchanged]_vars

\* a bound pair was resolved with an embedding that is not the prototype of
\* its global id
C36_Witness ==
    /\ mc_last_op = "assign"
    /\ res_log # <<>>
    /\ ~res_log[Len(res_log)].fresh
    /\ res_log[Len(res_log)].features # NoFeatures
    /\ \E i \in 1..Len(global_features) :
          /\ global_features[i].gid = res_log[Len(res_log)].global_id
          /\ global_features[i].proto # Proto(res_log[Len(res_log)].features)

(***************************************************************************)
(* FusionEngine (core/fusion_engine.py): grouping of one step's detections *)
(***************************************************************************)
\* FusionEngine(feature_weight=0.7), in tenths; position_weight is the rest
FeatureWeight == 7
\* if cost < 0.5, in tenths
MatchingCost == 5
\* an embedding at 45 degrees of Emb1: cosine similarity 0.7071
Emb4 == <<1, 1>>
\* the features a detection given to merge_detections carries
FusionFeatures == {NoFeatures, Emb1, Emb4}
\* calls of merge_detections
MaxMerges == 2

\* a Detection of fusion_engine.py; merge_detections reads no bbox
FDet(camera_id, features) == [camera_id |-> camera_id, features |-> features]

\* calculate_matching_cost(det1, det2) < 0.5 for two cameras' detections:
\* with spatial_cost = 1.0 the cost is position_weight + feature_weight * d,
\* d = 1.0 without features and 1 - cos_sim with them, so the cost is below
\* MatchingCost when cos_sim > 1 - (MatchingCost - position_weight) / feature_weight
CostIsLow(det1, det2) ==
    LET position_weight == 10 - FeatureWeight
    IN IF det1.camera_id = det2.camera_id THEN FALSE
       ELSE IF det1.features = NoFeatures \/ det2.features = NoFeatures
       THEN position_weight + FeatureWeight < MatchingCost
       ELSE SimGreater(Similarity(det1.features, det2.features),
                       SimOf(FeatureWeight - (MatchingCost - position_weight),
                             FeatureWeight))

\* an inner loop that does not mark the detections it adds as used
RECURSIVE GrowGroup_Unmarked(_, _, _, _, _)
GrowGroup_Unmarked(all_detections, det1, j, group, used_detections) ==
    IF j > Len(all_detections)
    THEN [group |-> group, used |-> used_detections]
    ELSE IF \/ j \in used_detections
            \/ \E k \in 1..Len(group) :
                  all_detections[group[k]].camera_id = all_detections[j].camera_id
            \/ ~CostIsLow(det1, all_detections[j])
         THEN GrowGroup_Unmarked(all_detections, det1, j + 1, group,
                                 used_detections)
         ELSE GrowGroup_Unmarked(all_detections, det1, j + 1, Append(group, j),
                                 used_detections)

\* an inner loop that does not look at the cameras already in the group
RECURSIVE GrowGroup_AnyCamera(_, _, _, _, _)
GrowGroup_AnyCamera(all_detections, det1, j, group, used_detections) ==
    IF j > Len(all_detections)
    THEN [group |-> group, used |-> used_detections]
    ELSE IF j \in used_detections \/ ~CostIsLow(det1, all_detections[j])
         THEN GrowGroup_AnyCamera(all_detections, det1, j + 1, group,
                                  used_detections)
         ELSE GrowGroup_AnyCamera(all_detections, det1, j + 1,
                                  Append(group, j), used_detections \cup {j})

\* the inner loop of merge_detections: the detections j joining det1's group
RECURSIVE GrowGroup(_, _, _, _, _)
GrowGroup(all_detections, det1, j, group, used_detections) ==
    IF j > Len(all_detections)
    THEN [group |-> group, used |-> used_detections]
    ELSE IF \/ j \in used_detections
            \/ \E k \in 1..Len(group) :
                  all_detections[group[k]].camera_id = all_detections[j].camera_id
            \/ ~CostIsLow(det1, all_detections[j])
         THEN GrowGroup(all_detections, det1, j + 1, group, used_detections)
         ELSE GrowGroup(all_detections, det1, j + 1, Append(group, j),
                        used_detections \cup {j})

\* the outer loop: one FusedObject per group, each with the next global id;
\* a FusedObject's detections are kept as their places in all_detections
RECURSIVE FuseFrom(_, _, _, _, _)
FuseFrom(all_detections, i, used_detections, next_id, fused_objects) ==
    IF i > Len(all_detections)
    THEN [fused |-> fused_objects, next |-> next_id]
    ELSE IF i \in used_detections
         THEN FuseFrom(all_detections, i + 1, used_detections, next_id,
                       fused_objects)
         ELSE LET g == GrowGroup(all_detections, all_detections[i], 1, <<i>>,
                                 used_detections \cup {i})
              IN FuseFrom(all_detections, i + 1, g.used, next_id + 1,
                    Append(fused_objects,
                           [global_id |-> Gid("F", next_id),
                            detections |-> g.group]))

\* FusionEngine.merge_detections on the flattened detections
merge_detections(all_detections, next_id, stats) ==
    LET counted == [stats EXCEPT !.total_detections = @ + Len(all_detections)]
    IN IF all_detections = <<>>
       THEN [fused |-> <<>>, next |-> next_id, stats |-> counted]
       ELSE IF Len(all_detections) = 1
       THEN [fused |-> <<[global_id |-> Gid("F", next_id), detections |-> <<1>>]>>,
             next |-> next_id + 1,
             stats |-> [counted EXCEPT !.total_fused_objects = @ + 1]]
       ELSE LET r == FuseFrom(all_detections, 1, {}, next_id, <<>>)
            IN [fused |-> r.fused, next |-> r.next,
                stats |-> [counted EXCEPT
                   !.total_fused_objects = @ + Len(r.fused),
                   !.duplicates_eliminated =
                       @ + Len(all_detections) - Len(r.fused)]]

\* the detection lists of one camera, and the flattened detections of the
\* dicts {camera_id: [detections]} merge_detections is called with
FDetLists(c) == UNION {[1..k -> {FDet(c, f) : f \in FusionFeatures}] :
                       k \in DetCounts}

FusionInputs ==
    UNION {{d1 \o d2 : d1 \in FDetLists(c1), d2 \in FDetLists(c2)} :
           <<c1, c2>> \in {cc \in Cameras \X Cameras : cc[1] # cc[2]}}

FusedIds(fused) == [i \in 1..Len(fused) |-> fused[i].global_id]

FusionInit ==
    /\ fe_next_global_id = 0
    /\ fe_stats = [total_detections |-> 0, total_fused_objects |-> 0,
                   duplicates_eliminated |-> 0]
    /\ fe_out = <<>>
    /\ fe_in = <<>>
    /\ fe_repeat = FALSE
    /\ fe_prev_ids = <<>>
    /\ fe_calls = 0

\* FusionEngine.merge_detections(detections_per_camera)
MergeDetections(all_detections) ==
    /\ fe_calls < MaxMerges
    /\ fe_calls' = fe_calls + 1
    /\ LET r == merge_detections(all_detections, fe_next_global_id, fe_stats)
       IN /\ fe_out' = r.fused
          /\ fe_next_global_id' = r.next
          /\ fe_stats' = r.stats
    /\ fe_in' = all_detections
    /\ fe_repeat' = (fe_calls > 0 /\ all_detections = fe_in)
    /\ fe_prev_ids' = FusedIds(fe_out)
    /\ FusionOnly

FusionNext == \E d \in FusionInputs : MergeDetections(d)

(***************************************************************************)
(* Properties of FusionEngine                                              *)
(***************************************************************************)
\* C10: when merge_detections gets the same detections on two consecutive
\* calls, the fused objects of the second call carry the global ids of the
\* first.
C10_SameIdsOnRepeat ==
    fe_repeat => FusedIds(fe_out) = fe_prev_ids

\* C24: when merge_detections gets two detections, of two different cameras,
\* whose embeddings have a similarity above the re-identification threshold
\* (0.7), it returns exactly one FusedObject holding both.
C24_SimilarPairFused ==
    (/\ fe_calls > 0
     /\ Len(fe_in) = 2
     /\ fe_in[1].camera_id # fe_in[2].camera_id
     /\ fe_in[1].features # NoFeatures /\ fe_in[2].features # NoFeatures
     /\ SimGreater(Similarity(fe_in[1].features, fe_in[2].features),
                   SimOf(ReidThresholdNum, ReidThresholdDen)))
       => /\ Len(fe_out) = 1
          /\ fe_out[1].detections = <<1, 2>>

\* C25: every FusedObject merge_detections returns holds at most one
\* detection of each camera.
C25_OneMemberPerCamera ==
    \A i \in 1..Len(fe_out) :
       \A k \in 1..Len(fe_out[i].detections) :
          \A l \in 1..(k - 1) :
             fe_in[fe_out[i].detections[k]].camera_id
                # fe_in[fe_out[i].detections[l]].camera_id

\* a FusedObject of two cameras' detections, and a further detection of the
\* second camera that matches the first member as well and was left out
C25_Witness ==
    \E i \in 1..Len(fe_out) :
       /\ Len(fe_out[i].detections) = 2
       /\ \E j \in 1..Len(fe_in) :
             /\ j \notin {fe_out[i].detections[1], fe_out[i].detections[2]}
             /\ fe_in[j].camera_id = fe_in[fe_out[i].detections[2]].camera_id
             /\ CostIsLow(fe_in[fe_out[i].detections[1]], fe_in[j])

\* C38: merge_detections partitions its input: every input detection is a
\* member of exactly one returned FusedObject, no FusedObject is empty, and
\* duplicates_eliminated grows by (number of input detections - number of
\* FusedObjects) for that call.
C38_MergePartitionsInput ==
    /\ [](/\ \A j \in 1..Len(fe_in) :
               Cardinality({<<i, k>> \in (1..Len(fe_out)) \X (1..Len(fe_in)) :
                               /\ k <= Len(fe_out[i].detections)
                               /\ fe_out[i].detections[k] = j}) = 1
           /\ \A i \in 1..Len(fe_out) :
                 /\ fe_out[i].detections # <<>>
                 /\ \A k \in 1..Len(fe_out[i].detections) :
                       fe_out[i].detections[k] \in 1..Len(fe_in))
    /\ [][fe_calls' = fe_calls + 1 =>
             fe_stats'.duplicates_eliminated =
                fe_stats.duplicates_eliminated + Len(fe_in') - Len(fe_out')]_vars

\* a second call fused three detections into two objects, after a first
\* call that eliminated a duplicate too
C38_Witness ==
    /\ fe_calls = 2
    /\ Len(fe_in) = 3
    /\ Len(fe_out) = 2
    /\ fe_stats.duplicates_eliminated > 1

\* C28: on an update step, every detection that carries an embedding has a
\* track of its camera, the one it matched or created, that holds the
\* detection's box and its embedding, and the tracks returned for it carry
\* that embedding, which is the one _assign_global_id gets.
C28_EmbeddingReachesResolver ==
    [][\A dpc \in McInputs :
          McUpdate(dpc) =>
             \A k \in 1..Len(dpc) :
                \A j \in 1..Len(dpc[k].detections) :
                   dpc[k].detections[j].features # NoFeatures =>
                      /\ \E i \in 1..Len(trackers'[dpc[k].camera_id].tracks) :
                            LET t == trackers'[dpc[k].camera_id].tracks[i]
                            IN /\ t.bbox = dpc[k].detections[j].bbox
                               /\ t.time_since_update = 0
                               /\ t.features = dpc[k].detections[j].features
                      /\ \A i \in 1..Len(mc_out') :
                            (/\ mc_out'[i].camera_id = dpc[k].camera_id
                             /\ mc_out'[i].bbox = dpc[k].detections[j].bbox
                             /\ mc_out'[i].time_since_update = 0)
                               => mc_out'[i].features
                                     = dpc[k].detections[j].features]_vars

\* the FusedObjects merge_detections returns for the detections d on a new
\* engine
FusedOf(d) ==
    merge_detections(d, 0, [total_detections |-> 0, total_fused_objects |-> 0,
                            duplicates_eliminated |-> 0]).fused

\* for every input of merge_detections, a detection without features is the
\* only member of its FusedObject
FusionKeepsEmbeddingLessAlone ==
    \A d \in FusionInputs :
       \A i \in 1..Len(FusedOf(d)) :
          \A k \in 1..Len(FusedOf(d)[i].detections) :
             d[FusedOf(d)[i].detections[k]].features = NoFeatures
                => Len(FusedOf(d)[i].detections) = 1

\* the pairs (camera, local id) bound to the global id gid
BoundTo(gid) ==
    {cl \in Cameras \X McLocalIds :
        /\ AlreadyBound(local_to_global, cl[1], cl[2])
        /\ local_to_global[cl[1]][cl[2]] = gid}

\* C27: when the last _assign_global_id call resolved an unbound track
\* without features, it minted a new global id that is bound to this track
\* only, whatever prototypes there were, and left the prototypes as they
\* were; and merge_detections groups no detection without features with
\* another detection.
C27_NoEmbeddingOwnIdentity ==
    /\ res_log # <<>> =>
          LET e == res_log[Len(res_log)]
          IN (e.features = NoFeatures /\ e.fresh) =>
                /\ e.minted
                /\ BoundTo(e.global_id) = {<<e.camera_id, e.local_id>>}
                /\ Len(global_features) = e.protos_before
                /\ \A i \in 1..Len(global_features) :
                      global_features[i].gid # e.global_id
    /\ FusionKeepsEmbeddingLessAlone

\* an unbound track without features was resolved while the registry held
\* prototypes
C27_Witness ==
    /\ res_log # <<>>
    /\ res_log[Len(res_log)].features = NoFeatures
    /\ res_log[Len(res_log)].fresh
    /\ res_log[Len(res_log)].minted
    /\ res_log[Len(res_log)].protos_before > 0

(***************************************************************************)
(* One camera's FrameBuffer under two threads (core/sync_engine.py): the   *)
(* capture thread runs SyncEngine.add_frame, the processing thread runs    *)
(* get_synced_frames(). The engine takes no lock; a thread can be          *)
(* preempted between any two bytecodes, while one deque method or one step *)
(* of a C loop up to its next call into Python code is atomic.             *)
(***************************************************************************)
\* add_frame calls of the producer, get_synced_frames calls of the consumer
MaxRacePush == 2
MaxRaceGets == 1

\* time.time() while the two threads run
RaceClock == CHOOSE t \in Times : \A u \in Times : u <= t

\* the timestamps the producer passes: one past max_age_sec, the current time
RaceStamps == {0, RaceClock}

Producer(pc, ts) == [pc |-> pc, ts |-> ts]

\* ref: reference_timestamp; it_state, pos: the deque iterator of min();
\* best: the frame min() holds as the least so far
Consumer(pc, ref, it_state, pos, best) ==
    [pc |-> pc, ref |-> ref, it_state |-> it_state, pos |-> pos, best |-> best]

ConsumerIdle == Consumer("idle", NoTs, 0, 0, NoFrame)

RaceInit ==
    /\ rc_max_size \in BufferSizes
    /\ rc_frames = <<>>
    /\ rc_state = 0
    /\ rc_prod = Producer("idle", NoTs)
    /\ rc_cons = ConsumerIdle
    /\ rc_raised = "none"
    /\ rc_result = NoFrame
    /\ rc_calls = [pushes |-> 0, gets |-> 0]

\* ---- the producer: SyncEngine.add_frame(0, frame, timestamp)
\* the call is made; the camera is registered
ProducerCall(timestamp) ==
    /\ rc_raised = "none"
    /\ rc_prod.pc = "idle"
    /\ rc_calls.pushes < MaxRacePush
    /\ rc_calls' = [rc_calls EXCEPT !.pushes = @ + 1]
    /\ rc_prod' = Producer("append", timestamp)
    /\ UNCHANGED <<rc_max_size, rc_frames, rc_state, rc_cons, rc_raised,
                   rc_result>>
    /\ RaceOnly

\* self.frames.append(synced_frame)
ProducerAppend ==
    /\ rc_raised = "none"
    /\ rc_prod.pc = "append"
    /\ rc_frames' = Append(rc_frames,
                           SyncedFrame(0, rc_prod.ts, rc_calls.pushes))
    /\ rc_state' = rc_state + 1
    /\ rc_prod' = Producer("trim", NoTs)
    /\ UNCHANGED <<rc_max_size, rc_cons, rc_raised, rc_result, rc_calls>>
    /\ RaceOnly

\* while len(self.frames) > self.max_size: self.frames.popleft()
ProducerTrim ==
    /\ rc_raised = "none"
    /\ rc_prod.pc = "trim"
    /\ IF Len(rc_frames) > rc_max_size
       THEN /\ rc_frames' = Tail(rc_frames)
            /\ rc_state' = rc_state + 1
            /\ UNCHANGED rc_prod
       ELSE /\ rc_prod' = Producer("purge", NoTs)
            /\ UNCHANGED <<rc_frames, rc_state>>
    /\ UNCHANGED <<rc_max_size, rc_cons, rc_raised, rc_result, rc_calls>>
    /\ RaceOnly

\* clear_old_frames: while self.frames and (current_time -
\* self.frames[0].timestamp) > max_age_sec: self.frames.popleft()
ProducerPurge ==
    /\ rc_raised = "none"
    /\ rc_prod.pc = "purge"
    /\ IF rc_frames # <<>> /\ (RaceClock - Head(rc_frames).timestamp) > max_age_sec
       THEN /\ rc_frames' = Tail(rc_frames)
            /\ rc_state' = rc_state + 1
            /\ UNCHANGED rc_prod
       ELSE /\ rc_prod' = Producer("idle", NoTs)
            /\ UNCHANGED <<rc_frames, rc_state>>
    /\ UNCHANGED <<rc_max_size, rc_cons, rc_raised, rc_result, rc_calls>>
    /\ RaceOnly

\* ---- the consumer: SyncEngine.get_synced_frames()
\* the call is made; get_reference_timestamp reaches get_latest_timestamp
ConsumerCall ==
    /\ rc_raised = "none"
    /\ rc_cons.pc = "idle"
    /\ rc_calls.gets < MaxRaceGets
    /\ rc_calls' = [rc_calls EXCEPT !.gets = @ + 1]
    /\ rc_cons' = Consumer("latest_test", NoTs, 0, 0, NoFrame)
    /\ rc_result' = NoFrame
    /\ UNCHANGED <<rc_max_size, rc_frames, rc_state, rc_prod, rc_raised>>
    /\ RaceOnly

\* get_latest_timestamp: if not self.frames: return None. Without a
\* timestamp get_synced_frames returns {}.
ConsumerLatestTest ==
    /\ rc_raised = "none"
    /\ rc_cons.pc = "latest_test"
    /\ rc_cons' = IF rc_frames = <<>> THEN ConsumerIdle
                  ELSE Consumer("latest_read", NoTs, 0, 0, NoFrame)
    /\ UNCHANGED <<rc_max_size, rc_frames, rc_state, rc_prod, rc_raised,
                   rc_result, rc_calls>>
    /\ RaceOnly

\* get_latest_timestamp: return self.frames[-1].timestamp; IndexError on an
\* empty deque
ConsumerLatestRead ==
    /\ rc_raised = "none"
    /\ rc_cons.pc = "latest_read"
    /\ IF rc_frames = <<>>
       THEN /\ rc_raised' = "IndexError"
            /\ rc_cons' = ConsumerIdle
       ELSE /\ rc_cons' = Consumer("closest_test",
                                   rc_frames[Len(rc_frames)].timestamp,
                                   0, 0, NoFrame)
            /\ UNCHANGED rc_raised
    /\ UNCHANGED <<rc_max_size, rc_frames, rc_state, rc_prod, rc_result,
                   rc_calls>>
    /\ RaceOnly

\* get_closest_frame: if not self.frames: return None
ConsumerClosestTest ==
    /\ rc_raised = "none"
    /\ rc_cons.pc = "closest_test"
    /\ rc_cons' = IF rc_frames = <<>> THEN ConsumerIdle
                  ELSE [rc_cons EXCEPT !.pc = "min"]
    /\ UNCHANGED <<rc_max_size, rc_frames, rc_state, rc_prod, rc_raised,
                   rc_result, rc_calls>>
    /\ RaceOnly

\* the frame min() keeps when it has best and gets frame
Closer(best, frame, ref) ==
    IF best = NoFrame \/ Abs(frame.timestamp - ref) < Abs(best.timestamp - ref)
    THEN frame ELSE best

\* min(self.frames, key=...): the iterator is created and min() runs up to
\* the call of the key function on the first frame
ConsumerMinFirst ==
    /\ rc_raised = "none"
    /\ rc_cons.pc = "min"
    /\ IF rc_frames = <<>>
       THEN /\ rc_raised' = "ValueError"
            /\ rc_cons' = ConsumerIdle
       ELSE /\ rc_cons' = [rc_cons EXCEPT !.pc = "key", !.it_state = rc_state,
                                          !.pos = 1]
            /\ UNCHANGED rc_raised
    /\ UNCHANGED <<rc_max_size, rc_frames, rc_state, rc_prod, rc_result,
                   rc_calls>>
    /\ RaceOnly

\* the key function returns and min() asks the iterator for the next frame:
\* RuntimeError (deque mutated during iteration) if the deque has changed
\* since the iterator was created; after the last frame min() returns, the
\* tolerance is tested and the frame returned
ConsumerMinNext ==
    /\ rc_raised = "none"
    /\ rc_cons.pc = "key"
    /\ IF rc_state # rc_cons.it_state
       THEN /\ rc_raised' = "RuntimeError"
            /\ rc_cons' = ConsumerIdle
            /\ UNCHANGED rc_result
       ELSE /\ UNCHANGED rc_raised
            /\ IF rc_cons.pos = Len(rc_frames)
               THEN /\ rc_result' =
                         IF WithinTolerance(Abs(
                               Closer(rc_cons.best, rc_frames[rc_cons.pos],
                                      rc_cons.ref).timestamp - rc_cons.ref))
                         THEN Closer(rc_cons.best, rc_frames[rc_cons.pos],
                                     rc_cons.ref)
                         ELSE NoFrame
                    /\ rc_cons' = ConsumerIdle
               ELSE /\ rc_cons' = [rc_cons EXCEPT
                          !.best = Closer(@, rc_frames[rc_cons.pos],
                                          rc_cons.ref),
                          !.pos = @ + 1]
                    /\ UNCHANGED rc_result
    /\ UNCHANGED <<rc_max_size, rc_frames, rc_state, rc_prod, rc_calls>>
    /\ RaceOnly

RaceNext ==
    \/ \E ts \in RaceStamps : ProducerCall(ts)
    \/ ProducerAppend
    \/ ProducerTrim
    \/ ProducerPurge
    \/ ConsumerCall
    \/ ConsumerLatestTest
    \/ ConsumerLatestRead
    \/ ConsumerClosestTest
    \/ ConsumerMinFirst
    \/ ConsumerMinNext

\* C14: with one thread in add_frame and one in get_synced_frames on the
\* same buffer, at any interleaving, no call raises and the frame returned
\* is one that was pushed.
C14_NoRaise ==
    /\ rc_raised = "none"
    /\ rc_result # NoFrame =>
          rc_result.frame_number \in 1..rc_calls.pushes

(***************************************************************************)
(* calculate_iou (ai/tracker.py, core/fusion_engine.py) on its own         *)
(***************************************************************************)
\* the coordinates of the boxes are the integers 0..IouCoordMax
IouCoordMax == 2

\* every array [x1, y1, x2, y2] of such coordinates, the degenerate boxes and
\* the boxes with x2 < x1 or y2 < y1 included
IouBoxes ==
    {<<x1, y1, x2, y2>> : x1 \in 0..IouCoordMax, y1 \in 0..IouCoordMax,
                          x2 \in 0..IouCoordMax, y2 \in 0..IouCoordMax}

\* a calculate_iou that divides whatever the union is
FusionEngine_calculate_iou_Unguarded(bbox1, bbox2) ==
    LET x1 == Max2(bbox1[1], bbox2[1])
        y1 == Max2(bbox1[2], bbox2[2])
        x2 == Min2(bbox1[3], bbox2[3])
        y2 == Min2(bbox1[4], bbox2[4])
        intersection == Max2(0, x2 - x1) * Max2(0, y2 - y1)
        area1 == (bbox1[3] - bbox1[1]) * (bbox1[4] - bbox1[2])
        area2 == (bbox2[3] - bbox2[1]) * (bbox2[4] - bbox2[2])
        union == area1 + area2 - intersection
    IN <<intersection, union>>

\* FusionEngine.calculate_iou, as the fraction intersection / union: it
\* tests union == 0 where SimpleTracker.calculate_iou tests union > 0
FusionEngine_calculate_iou(bbox1, bbox2) ==
    LET x1 == Max2(bbox1[1], bbox2[1])
        y1 == Max2(bbox1[2], bbox2[2])
        x2 == Min2(bbox1[3], bbox2[3])
        y2 == Min2(bbox1[4], bbox2[4])
        intersection == Max2(0, x2 - x1) * Max2(0, y2 - y1)
        area1 == (bbox1[3] - bbox1[1]) * (bbox1[4] - bbox1[2])
        area2 == (bbox2[3] - bbox2[1]) * (bbox2[4] - bbox2[2])
        union == area1 + area2 - intersection
    IN IF union = 0 THEN <<0, 1>> ELSE <<intersection, union>>

IouResult(by, value) == [by |-> by, value |-> value]

IouInit ==
    /\ iou_bbox1 \in IouBoxes
    /\ iou_bbox2 \in IouBoxes
    /\ iou_result = IouResult("none", <<0, 1>>)

\* SimpleTracker.calculate_iou(bbox1, bbox2)
TrackerIou ==
    /\ iou_result.by = "none"
    /\ iou_result' = IouResult("SimpleTracker",
                               calculate_iou(iou_bbox1, iou_bbox2))
    /\ UNCHANGED <<iou_bbox1, iou_bbox2>>
    /\ IouOnly

\* FusionEngine.calculate_iou(bbox1, bbox2)
FusionIou ==
    /\ iou_result.by = "none"
    /\ iou_result' = IouResult("FusionEngine",
                               FusionEngine_calculate_iou(iou_bbox1, iou_bbox2))
    /\ UNCHANGED <<iou_bbox1, iou_bbox2>>
    /\ IouOnly

IouNext == TrackerIou \/ FusionIou

\* the two boxes share a region of positive area
Overlapping(bbox1, bbox2) ==
    /\ Max2(bbox1[1], bbox2[1]) < Min2(bbox1[3], bbox2[3])
    /\ Max2(bbox1[2], bbox2[2]) < Min2(bbox1[4], bbox2[4])

\* x1 < x2 and y1 < y2
ProperBox(bbox) == bbox[1] < bbox[3] /\ bbox[2] < bbox[4]

\* the fraction is 1.0, is 0.0
IsOne(f) == f[1] = f[2]
IsZero(f) == f[1] = 0

\* C23 as stated: calculate_iou returns 1.0 for any two identical boxes and
\* 0.0 for any two boxes that do not overlap.
C23_IouOfAnyBoxes ==
    iou_result.by # "none" =>
       /\ iou_bbox1 = iou_bbox2 => IsOne(iou_result.value)
       /\ ~Overlapping(iou_bbox1, iou_bbox2) => IsZero(iou_result.value)

\* C23: calculate_iou, of the tracker and of the fusion engine, returns 1.0
\* for two identical boxes of positive width and height, and 0.0 for two
\* boxes that share no region of positive area.
C23_IouOfProperBoxes ==
    iou_result.by # "none" =>
       /\ (iou_bbox1 = iou_bbox2 /\ ProperBox(iou_bbox1)) =>
             IsOne(iou_result.value)
       /\ ~Overlapping(iou_bbox1, iou_bbox2) => IsZero(iou_result.value)

\* the tracker's calculate_iou was called on twice the same proper box
C23_Witness ==
    /\ iou_result.by = "SimpleTracker"
    /\ iou_bbox1 = iou_bbox2 /\ ProperBox(iou_bbox1)
    /\ IsOne(iou_result.value)

\* x1 <= x2 and y1 <= y2
WellFormed(bbox) == bbox[1] <= bbox[3] /\ bbox[2] <= bbox[4]

\* the calculate_iou of the class that was called, on the arguments swapped
IouSwapped ==
    IF iou_result.by = "SimpleTracker"
    THEN calculate_iou(iou_bbox2, iou_bbox1)
    ELSE FusionEngine_calculate_iou(iou_bbox2, iou_bbox1)

\* C39: calculate_iou never divides by zero: for degenerate (zero-area)
\* boxes, including two identical zero-area boxes, it returns 0 rather than
\* raising, and for all boxes with x1 <= x2 and y1 <= y2 its result lies in
\* [0, 1] and is symmetric in its two arguments.
C39_IouGuardedAndSymmetric ==
    iou_result.by # "none" =>
       /\ iou_result.value[2] # 0
       /\ (WellFormed(iou_bbox1) /\ WellFormed(iou_bbox2)) =>
             /\ (Area(iou_bbox1) = 0 \/ Area(iou_bbox2) = 0) =>
                   IsZero(iou_result.value)
             /\ iou_result.value[2] > 0
             /\ 0 <= iou_result.value[1]
             /\ iou_result.value[1] <= iou_result.value[2]
             /\ FracEq(iou_result.value, IouSwapped)

\* the fusion engine's calculate_iou was called on twice the same box
\* without area
C39_Witness ==
    /\ iou_result.by = "FusionEngine"
    /\ iou_bbox1 = iou_bbox2
    /\ WellFormed(iou_bbox1)
    /\ Area(iou_bbox1) = 0
    /\ IsZero(iou_result.value)

(***************************************************************************)
(* FusedObject.update_confidence (core/fusion_engine.py)                   *)
(***************************************************************************)
\* the confidences of the member detections, in hundredths
Confidences == {0, 50, 88, 90, 100}
\* the detections of one FusedObject
MaxMembers == 5
\* camera_bonus = min(self.num_cameras / 4.0, 1.0)
FullBonusCameras == 4
\* avg_conf * (1.0 + camera_bonus * 0.2): 0.2 is 1/BonusDen
BonusDen == 5

RECURSIVE SumSeq(_)
SumSeq(q) == IF q = <<>> THEN 0 ELSE Head(q) + SumSeq(Tail(q))

\* avg_conf * (1.0 + camera_bonus * 0.2), as a fraction:
\* (sum / (100 n)) * (1 + (bonus4 / 4) / 5), bonus4 the cameras that count
Boosted(confs, bonus4) ==
    <<SumSeq(confs) * (FullBonusCameras * BonusDen + bonus4),
      100 * Len(confs) * FullBonusCameras * BonusDen>>

\* a bonus that grows with every camera
BonusCameras_Unbounded(n) == n

\* 4 * min(self.num_cameras / 4.0, 1.0)
BonusCameras(n) == Min2(n, FullBonusCameras)

\* FusedObject.update_confidence(): the new self.confidence
update_confidence(confs) ==
    IF confs = <<>> THEN <<0, 1>>
    ELSE IF FracLess(<<1, 1>>, Boosted(confs, BonusCameras(Len(confs))))
         THEN <<1, 1>>
         ELSE Boosted(confs, BonusCameras(Len(confs)))

FusedInit ==
    /\ fo_detections \in UNION {[1..n -> Confidences] : n \in 0..MaxMembers}
    /\ fo_confidence = <<0, 1>>
    /\ fo_updated = FALSE

\* FusedObject.update_confidence()
UpdateConfidence ==
    /\ ~fo_updated
    /\ fo_updated' = TRUE
    /\ fo_confidence' = update_confidence(fo_detections)
    /\ UNCHANGED fo_detections
    /\ FusedOnly

FusedNext == UpdateConfidence

\* mean(member confidences) * (1 + 0.2 * min(member_count / 4, 1)), with
\* 20 * 100 * n * mean = 20 * sum and 20 * (1 + 0.2 * min(n / 4, 1)) =
\* 20 + min(n, 4)
ClaimedConfidence(confs) ==
    <<SumSeq(confs) * (20 + (IF Len(confs) < 4 THEN Len(confs) ELSE 4)),
      2000 * Len(confs)>>

\* C26 as stated: after update_confidence on a non-empty member list the
\* confidence is mean * (1 + 0.2 * min(member_count / 4, 1)).
C26_ConfidenceIsBoostedMean ==
    (fo_updated /\ fo_detections # <<>>) =>
       FracEq(fo_confidence, ClaimedConfidence(fo_detections))

\* C26: after update_confidence on a non-empty member list the confidence
\* is mean * (1 + 0.2 * min(member_count / 4, 1)) where that is at most 1.0,
\* and 1.0 otherwise.
C26_ConfidenceIsClampedBoostedMean ==
    (fo_updated /\ fo_detections # <<>>) =>
       IF FracLess(<<1, 1>>, ClaimedConfidence(fo_detections))
       THEN FracEq(fo_confidence, <<1, 1>>)
       ELSE FracEq(fo_confidence, ClaimedConfidence(fo_detections))

\* the spec's example: members 0.9 and 0.88 give mean * 1.1 = 0.979
C26_Witness ==
    /\ fo_updated
    /\ fo_detections = <<90, 88>>
    /\ FracEq(fo_confidence, <<979, 1000>>)

(***************************************************************************)
(* The greedy matching loop of SimpleTracker.update (ai/tracker.py), one   *)
(* round of `while True` at a time                                         *)
(***************************************************************************)
\* the most tracks and the most detections at the loop's entry
MaxGreedy == 2

\* SimpleTracker(iou_threshold=...): 0, the default 0.3, 1
GreedyThresholds == {<<0, 1>>, <<IouThresholdNum, IouThresholdDen>>, <<1, 1>>}

\* the non-empty lists of tracks and of detections, by their boxes
GreedyLists ==
    UNION {[1..n -> {Det(b, NoFeatures) : b \in Boxes}] : n \in 1..MaxGreedy}

\* the state when `while True` is entered: iou_matrix is filled from the
\* tracks' boxes, nothing is matched
GreedyInit ==
    /\ gm_threshold \in GreedyThresholds
    /\ gm_before \in GreedyLists
    /\ gm_dets \in GreedyLists
    /\ gm_tracks = gm_before
    /\ iou_matrix = IouMatrix(gm_before, gm_dets)
    /\ gm_pairs = <<>>
    /\ gm_pc = "loop"

\* a round that clears only the row of the matched track
Cleared_RowOnly(mat, ij) ==
    [kl \in DOMAIN mat |-> IF kl[1] = ij[1] THEN <<-1, 1>> ELSE mat[kl]]

\* a round that clears only the column of the matched detection
Cleared_ColumnOnly(mat, ij) ==
    [kl \in DOMAIN mat |-> IF kl[2] = ij[2] THEN <<-1, 1>> ELSE mat[kl]]

\* iou_matrix[i, :] = -1; iou_matrix[:, j] = -1
Cleared(mat, ij) ==
    [kl \in DOMAIN mat |->
        IF kl[1] = ij[1] \/ kl[2] = ij[2] THEN <<-1, 1>> ELSE mat[kl]]

\* i, j = np.unravel_index(iou_matrix.argmax(), iou_matrix.shape)
GreedyArgMax == ArgMax(iou_matrix, Len(gm_tracks), Len(gm_dets))

\* max_iou = iou_matrix.max(); if max_iou < self.iou_threshold: break
GreedyBreak ==
    /\ gm_pc = "loop"
    /\ FracLess(iou_matrix[GreedyArgMax], gm_threshold)
    /\ gm_pc' = "done"
    /\ UNCHANGED <<gm_threshold, gm_before, gm_tracks, gm_dets, iou_matrix,
                   gm_pairs>>
    /\ GreedyOnly

\* a round that binds: self.tracks[i].update(bbox, conf, features), the
\* pair is recorded as matched, its row and column are cleared
GreedyBind ==
    /\ gm_pc = "loop"
    /\ ~FracLess(iou_matrix[GreedyArgMax], gm_threshold)
    /\ gm_tracks' = [gm_tracks EXCEPT
                        ![GreedyArgMax[1]].bbox = gm_dets[GreedyArgMax[2]].bbox]
    /\ gm_pairs' = Append(gm_pairs, GreedyArgMax)
    /\ iou_matrix' = Cleared(iou_matrix, GreedyArgMax)
    /\ UNCHANGED <<gm_threshold, gm_before, gm_dets, gm_pc>>
    /\ GreedyOnly

GreedyNext == GreedyBreak \/ GreedyBind

\* C29: in one update each track is bound to at most one detection, each
\* detection to at most one track, and every bound pair has an IoU, of the
\* detection's box with the track's box from before the update, of at least
\* iou_threshold.
C29_OneToOneAboveThreshold ==
    /\ \A a \in 1..Len(gm_pairs) :
          \A b \in 1..(a - 1) :
             /\ gm_pairs[a][1] # gm_pairs[b][1]
             /\ gm_pairs[a][2] # gm_pairs[b][2]
    /\ \A a \in 1..Len(gm_pairs) :
          ~FracLess(calculate_iou(gm_before[gm_pairs[a][1]].bbox,
                                  gm_dets[gm_pairs[a][2]].bbox),
                    gm_threshold)

\* the loop ended with two pairs bound under the default threshold, one of
\* them moving its track to a box that overlaps the other detection more
C29_Witness ==
    /\ gm_pc = "done"
    /\ Len(gm_pairs) = 2
    /\ gm_threshold = <<IouThresholdNum, IouThresholdDen>>
    /\ gm_tracks # gm_before

\* C30: the loop ends, and it binds at most min(number of tracks, number of
\* detections) pairs.
C30_LoopTerminates ==
    /\ <>(gm_pc = "done")
    /\ [](Len(gm_pairs) <= Min2(Len(gm_tracks), Len(gm_dets)))

\* the loop ended under threshold 0 after binding as many pairs as there
\* are tracks, fewer than the detections
C30_Witness ==
    /\ gm_pc = "done"
    /\ gm_threshold = <<0, 1>>
    /\ Len(gm_tracks) < Len(gm_dets)
    /\ Len(gm_pairs) = Len(gm_tracks)

(***************************************************************************)
(* TrackedObject (ai/tracker.py): one track with its confidence and        *)
(* trajectory, the fields no tracker reads                                 *)
(***************************************************************************)
\* trajectory: deque(maxlen=50)
TrajectoryMaxLen == 50
\* the age up to which the track is followed
MaxTrackSteps == 52
\* the boxes the object is detected in
TrackBoxes == {BoxA, BoxB}
\* the confidences of its detections, in hundredths
TrackConfidences == {50, 90}

\* TrackedObject.center, doubled: (x1 + x2, y1 + y2)
Center(bbox) == <<bbox[1] + bbox[3], bbox[2] + bbox[4]>>

\* a trajectory that is a list
TrajectoryAppend_Unbounded(trajectory, center) == Append(trajectory, center)

\* self.trajectory.append(center) on a deque(maxlen=50): a full deque drops
\* its oldest point
TrajectoryAppend(trajectory, center) ==
    IF Len(trajectory) >= TrajectoryMaxLen
    THEN Append(Tail(trajectory), center)
    ELSE Append(trajectory, center)

\* TrackedObject(...) with the confidence, and the trajectory __post_init__
\* starts with the center
FullTrack(id, det, confidence) ==
    LET t == NewTrack(id, det)
    IN [global_id |-> t.global_id, local_id |-> t.local_id,
        camera_id |-> t.camera_id, bbox |-> t.bbox, features |-> t.features,
        age |-> t.age, time_since_update |-> t.time_since_update,
        state |-> t.state, hits |-> t.hits,
        confidence |-> confidence,
        trajectory |-> TrajectoryAppend(<<>>, Center(t.bbox))]

\* TrackedObject.update(bbox, confidence, features) with the confidence and
\* the trajectory
FullUpdate(t, det, confidence) ==
    [TrackedObject_update(t, det) EXCEPT
        !.confidence = confidence,
        !.trajectory = TrajectoryAppend(@, Center(det.bbox))]

TrackInit ==
    \E b \in TrackBoxes, c \in TrackConfidences :
        tk_track = FullTrack(0, Det(b, NoFeatures), c)

\* the greedy loop matched the track with a detection; the object stays
\* where it is or moves right
TrackUpdate(det, confidence) ==
    /\ tk_track.age < MaxTrackSteps
    /\ det.bbox[1] >= tk_track.bbox[1]
    /\ tk_track' = FullUpdate(tk_track, det, confidence)
    /\ TrackOnly

\* the track was not matched, and the purge keeps it
TrackMissed ==
    /\ tk_track.age < MaxTrackSteps
    /\ KeepTrack(mark_missed(tk_track))
    /\ tk_track' = mark_missed(tk_track)
    /\ TrackOnly

TrackNext ==
    \/ \E b \in TrackBoxes, c \in TrackConfidences :
          TrackUpdate(Det(b, NoFeatures), c)
    \/ TrackMissed

(***************************************************************************)
(* Properties of TrackedObject                                             *)
(***************************************************************************)
\* C31: for every track matched in an update its bbox and confidence become
\* the detection's, its current center is appended to its trajectory (the
\* oldest point is dropped from a full one), time_since_update becomes 0
\* and age increases by exactly 1; the trajectory never holds more than 50
\* points and never fewer than 1.
C31_MatchedTrackUpdated ==
    /\ [][\A b \in TrackBoxes, c \in TrackConfidences :
             TrackUpdate(Det(b, NoFeatures), c) =>
                LET old == tk_track.trajectory
                    new == tk_track'.trajectory
                IN /\ tk_track'.bbox = b
                   /\ tk_track'.confidence = c
                   /\ new[Len(new)] = Center(tk_track'.bbox)
                   /\ SubSeq(new, 1, Len(new) - 1) =
                         IF Len(old) = TrajectoryMaxLen THEN Tail(old) ELSE old
                   /\ tk_track'.time_since_update = 0
                   /\ tk_track'.age = tk_track.age + 1]_vars
    /\ [](Len(tk_track.trajectory) \in 1..TrajectoryMaxLen)

\* a track with a full trajectory was matched once more, after a miss
C31_Witness ==
    /\ tk_track.hits > TrajectoryMaxLen
    /\ tk_track.age > tk_track.hits
    /\ tk_track.time_since_update = 0
    /\ Len(tk_track.trajectory) = TrajectoryMaxLen

\* C34: for every live track age and time_since_update are non-negative;
\* age never decreases; and time_since_update changes only by +1 on a missed
\* step (with bbox, confidence and state left unchanged) or by being reset
\* to 0 on a match.
C34_CountersMonotone ==
    /\ [](tk_track.age >= 0 /\ tk_track.time_since_update >= 0)
    /\ [][/\ tk_track'.age >= tk_track.age
           /\ tk_track'.time_since_update # tk_track.time_since_update =>
                 \/ /\ tk_track'.time_since_update
                          = tk_track.time_since_update + 1
                    /\ tk_track'.hits = tk_track.hits
                    /\ tk_track'.bbox = tk_track.bbox
                    /\ tk_track'.confidence = tk_track.confidence
                    /\ tk_track'.state = tk_track.state
                 \/ /\ tk_track'.time_since_update = 0
                    /\ tk_track'.hits = tk_track.hits + 1]_vars

\* a Confirmed track that was matched is one miss away from the purge
C34_Witness ==
    /\ tk_track.state = "confirmed"
    /\ tk_track.hits > 0
    /\ tk_track.time_since_update = max_age - 1

(***************************************************************************)
(* Specifications                                                          *)
(***************************************************************************)
\* a component nobody uses stays as constructed, in one configuration
SyncParked == buffer_size = 1 /\ SyncInit
SimpleParked == st_min_hits = 3 /\ SimpleInit
MultiParked == mc_min_hits = 0 /\ MultiInit
FusionParked == FusionInit
RaceParked == rc_max_size = 1 /\ RaceInit
IouParked == iou_bbox1 = BoxA /\ iou_bbox2 = BoxA /\ IouInit
FusedParked == fo_detections = <<>> /\ FusedInit
GreedyParked ==
    /\ gm_threshold = <<IouThresholdNum, IouThresholdDen>>
    /\ gm_before = <<Det(BoxA, NoFeatures)>>
    /\ gm_dets = <<Det(BoxA, NoFeatures)>>
    /\ GreedyInit
TrackParked == tk_track = FullTrack(0, Det(BoxA, NoFeatures), 50)

InitSync ==
    SyncInit /\ SimpleParked /\ MultiParked /\ FusionParked /\ RaceParked
       /\ IouParked /\ FusedParked /\ GreedyParked /\ TrackParked
InitSimple ==
    SyncParked /\ SimpleInit /\ MultiParked /\ FusionParked /\ RaceParked
       /\ IouParked /\ FusedParked /\ GreedyParked /\ TrackParked
InitMulti ==
    SyncParked /\ SimpleParked /\ MultiInit /\ FusionParked /\ RaceParked
       /\ IouParked /\ FusedParked /\ GreedyParked /\ TrackParked
InitFusion ==
    SyncParked /\ SimpleParked /\ MultiParked /\ FusionInit /\ RaceParked
       /\ IouParked /\ FusedParked /\ GreedyParked /\ TrackParked
InitRace ==
    SyncParked /\ SimpleParked /\ MultiParked /\ FusionParked /\ RaceInit
       /\ IouParked /\ FusedParked /\ GreedyParked /\ TrackParked
InitIou ==
    SyncParked /\ SimpleParked /\ MultiParked /\ FusionParked /\ RaceParked
       /\ IouInit /\ FusedParked /\ GreedyParked /\ TrackParked
InitFused ==
    SyncParked /\ SimpleParked /\ MultiParked /\ FusionParked /\ RaceParked
       /\ IouParked /\ FusedInit /\ GreedyParked /\ TrackParked
InitGreedy ==
    SyncParked /\ SimpleParked /\ MultiParked /\ FusionParked /\ RaceParked
       /\ IouParked /\ FusedParked /\ GreedyInit /\ TrackParked
InitTrack ==
    SyncParked /\ SimpleParked /\ MultiParked /\ FusionParked /\ RaceParked
       /\ IouParked /\ FusedParked /\ GreedyParked /\ TrackInit

SpecSync == InitSync /\ [][SyncNext]_vars
SpecSimple == InitSimple /\ [][SimpleNext]_vars
SpecWatch == InitSimple /\ [][WatchNext]_vars
SpecMulti == InitMulti /\ [][MultiNext]_vars
SpecFusion == InitFusion /\ [][FusionNext]_vars
SpecRace == InitRace /\ [][RaceNext]_vars
SpecIou == InitIou /\ [][IouNext]_vars
SpecFused == InitFused /\ [][FusedNext]_vars
SpecGreedy == InitGreedy /\ [][GreedyNext]_vars
SpecTrack == InitTrack /\ [][TrackNext]_vars
\* update runs in one thread: a loop that can make a round makes it
SpecGreedyFair == SpecGreedy /\ WF_vars(GreedyNext)

Init ==
    SyncInit /\ SimpleInit /\ MultiInit /\ FusionInit /\ RaceInit /\ IouInit
       /\ FusedInit /\ GreedyInit /\ TrackInit

Next ==
    SyncNext \/ SimpleNext \/ WatchNext \/ MultiNext \/ FusionNext \/ RaceNext
       \/ IouNext \/ FusedNext \/ GreedyNext \/ TrackNext

Spec == Init /\ [][Next]_vars

====
